---- MODULE Spec2Model ----
(***************************************************************************)
(* Live-session orchestration of the interview screen                      *)
(* (src/components/InterviewScreen.tsx).  The file holds two variants of   *)
(* the screen:                                                             *)
(*   "voice" - continuous voice mode   (lines 15-243)                      *)
(*   "ptt"   - push-to-talk mode       (lines 259-576)                     *)
(* and src/App.tsx holds the flow controller that mounts the screen,       *)
(* unmounts it when a report is delivered and keeps the stored history.    *)
(* src/utils/audioUtils.ts holds the base64 and PCM conversions.           *)
(*                                                                         *)
(* Scheduling model: one JavaScript event loop.  Every action below is one *)
(* run-to-completion step (an event handler, or the part of an async       *)
(* function between two awaits).  Continuations waiting on a promise are   *)
(* kept in that promise's reaction queue and run in registration order as  *)
(* soon as the promise is settled, before any other event is handled.      *)
(***************************************************************************)
EXTENDS Integers, Sequences, FiniteSets, TLC

\* ------------------------------------------------------------- bounds
MaxEvents == 3      \* I/O callbacks delivered per run (capture frames + server messages)
MaxClips == 2       \* audio payloads received per run
MaxRec == 2         \* live sessions (capture stream + connection) created per run
MaxTime == 1        \* largest reading of the output context's clock
MaxBytes == 4       \* longest byte sequence given to encode
MaxSamples == 3     \* most 16-bit samples given to decodeAudioData
MaxChannels == 2    \* largest channel count given to decodeAudioData
MaxInterviews == 2  \* interviews completed per run of the flow controller
MaxFrame == 2       \* most float samples in one capture buffer

Ids == 1..MaxRec
Chars == {"a", " "}
Durations == {1, 2}
ByteValues == {0, 1, 127, 128, 255}
PcmBytes == {0, 128, 255}

VARIABLES
    variant,                \* which screen variant is mounted
    mounted,                \* the screen is mounted (App.tsx:70-72)
    appState,               \* App.tsx:10
    delivered,              \* what onInterviewEnd received (App.tsx:25), or <<>>
    status,                 \* useState status (lines 16 / 260)
    transcript,             \* useState transcript (lines 17 / 261)
    isMuted,                \* useState isMuted (line 18)
    isMutedAtEffect,        \* the isMuted the mount effect's closures captured (77, 114, 195)
    isGeneratingReport,     \* useState (lines 19 / 262)
    \* ---- refs of the voice variant
    streamRef, inputAudioContextRef, outputAudioContextRef, sourceRef,
    currentInputTranscriptionRef, currentOutputTranscriptionRef,
    nextStartTimeRef, audioSourcesRef,
    \* ---- refs both variants name alike
    sessionPromiseRef, scriptProcessorRef,
    \* ---- the browser / SDK objects the refs point to, by object id
    tracks,                 \* MediaStream tracks:   "none" | "live" | "stopped"
    inCtx, outCtx,          \* AudioContext state:   "none" | "running" | "closed"
    node,                   \* capture graph:        "none" | "connected" | "disconnected"
    promise,                \* ai.live.connect(...): "none" | "pending" | "resolved" | "rejected"
    conn,                   \* the live connection:  "none" | "connecting" | "onopen" (its
                            \*   onopen callback has run) | "open" (the promise holds the
                            \*   session) | "failed" | "errored" | "closed"
    reactions,              \* per promise: continuations registered on it, in order
    \* ---- state and refs of the push-to-talk variant
    isRecording, isAiTyping,            \* useState (263, 264)
    audioStreamRef, audioContextsRef, mediaStreamSourceRef,
    liveTranscriptionRef, cleanupPerformedRef,
    made,                   \* recordings started so far; recording i owns the objects i
    hsPc,                   \* per recording: its handleStartRecording call (374-446)
    hpPc,                   \* per recording: the handleStopRecording call that stops it (324-371)
    scPc,                   \* startConversation (481-506)
    currentAiText,          \* per text exchange: the stream loop's local text (352 / 490)
    clPc,                   \* per caller: its cleanupLiveSession call (280-322)
    aiSlot,                 \* per text exchange: where its AI message was put, or 0
    \* ---- positions of the async functions
    ssPc,                   \* startSession (78-176)
    eiPc,                   \* endInterview (34-75 / 449-469)
    eiTranscript,           \* the transcript endInterview's closure holds (75 / 469)
    \* ---- playback
    currentTime,            \* outputContext.currentTime
    pendingDecodes,         \* onmessage calls suspended at `await decodeAudioData` (150)
    clips,                  \* every source.start() made: its start time and duration,
                            \*   the clock and cursor its message read, whether no
                            \*   other payload arrived while it was decoded (solo),
                            \*   whether it was stopped / its 'ended' event has fired
    \* ---- observation (history) variables
    events,                 \* I/O callbacks delivered so far
    frameNo,                \* capture frames produced so far
    sent,                   \* sendRealtimeInput calls made, in order
    rel,                    \* per object: how often each release operation was invoked
    tdLog,                  \* per teardown caller: the release steps of its current run
    errorFired,             \* the connection's onerror callback has run
    closeFired,             \* the connection's onclose callback has run
    nodeOnClosedCtx,        \* a capture node was created on a closed context
    turnLog,                \* fragments received since the last turn-complete, per speaker
    endedAt,                \* the connection's state when end() was first invoked
    \* ---- the flow controller (App.tsx) and the setup screen
    interviewHistory,       \* localStorage's value under 'interviewHistory'
    setupHistory,           \* SetupScreen's useState history (598)
    appTranscript,          \* App.tsx:13
    feedbackReport,         \* App.tsx:12
    interviewConfig,        \* App.tsx:11
    now,                    \* the last reading of Date.now()
    endCall,                \* the last call of handleInterviewEnd: its arguments, and
                            \*   whether localStorage's getItem and setItem worked
    \* ---- one call of each audioUtils function
    data,                   \* the Uint8Array argument
    numChannels,            \* decodeAudioData's channel count
    encoded,                \* encode's result
    decoded,                \* decode's result
    buffer,                 \* decodeAudioData's outcome
    utilPc                  \* which of the calls have been made

refsVoice == <<streamRef, inputAudioContextRef, outputAudioContextRef, sourceRef,
               currentInputTranscriptionRef, currentOutputTranscriptionRef,
               nextStartTimeRef, audioSourcesRef>>
refsBoth  == <<sessionPromiseRef, scriptProcessorRef>>
objects   == <<tracks, inCtx, outCtx, node, promise, conn, reactions>>
playback  == <<currentTime, pendingDecodes, clips>>
uiState   == <<status, transcript, isMuted, isGeneratingReport>>
storeVars == <<interviewHistory, setupHistory, appTranscript, feedbackReport,
               interviewConfig, now, endCall>>
utilVars  == <<data, numChannels, encoded, decoded, buffer, utilPc>>
appVars   == <<variant, mounted, appState, delivered, isMutedAtEffect, storeVars, utilVars>>
pcs       == <<ssPc, eiPc, eiTranscript>>
history   == <<events, frameNo, sent, rel, tdLog, errorFired, closeFired,
               nodeOnClosedCtx, turnLog, endedAt>>

pttState  == <<isRecording, isAiTyping>>
pttRefs   == <<audioStreamRef, audioContextsRef, mediaStreamSourceRef,
               liveTranscriptionRef, cleanupPerformedRef>>
pttPcs    == <<made, hsPc, hpPc, scPc, currentAiText, clPc, aiSlot>>
pttVars   == <<pttState, pttRefs, pttPcs>>

vars == <<appVars, uiState, refsVoice, refsBoth, objects, pcs, playback, history,
          pttVars>>

\* The callers of a teardown: the handleStopRecording call of each recording,
\* endInterview, the unmount cleanup.
StopNames == <<"stop1", "stop2", "stop3", "stop4">>
StopCaller(j) == StopNames[j]
StopCallers == {StopCaller(j) : j \in Ids}
Callers == StopCallers \cup {"end", "dispose"}

\* The text exchanges: startConversation's (0) and one per handleStopRecording call.
Exchanges == {0} \cup Ids

\* ------------------------------------------------------------- text
\* String.prototype.trim over the model's alphabet: " " is the whitespace.
RECURSIVE TrimLeft(_)
TrimLeft(s) == IF s # <<>> /\ Head(s) = " " THEN TrimLeft(Tail(s)) ELSE s

RECURSIVE TrimRight(_)
TrimRight(s) ==
    IF s # <<>> /\ s[Len(s)] = " " THEN TrimRight(SubSeq(s, 1, Len(s) - 1)) ELSE s

Trim(s) == TrimRight(TrimLeft(s))

Max(a, b) == IF a >= b THEN a ELSE b

\* ------------------------------------------------------------- React
\* A state setter called after unmount changes nothing.
SetState(cur, new) == IF mounted THEN new ELSE cur

\* No continuation is runnable: every settled promise has an empty reaction queue.
NoMicrotask ==
    \A i \in Ids : promise[i] \in {"resolved", "rejected"} => reactions[i] = <<>>

\* The event loop is free to dispatch a new event (a click, a device or
\* network callback).
Idle ==
    /\ NoMicrotask
    /\ pendingDecodes = <<>>
    /\ \A c \in StopCallers \cup {"end"} : clPc[c] # "done"

\* ------------------------------------------------------------- release operations

NoRel == [tracks |-> 0, node |-> 0, source |-> 0, inCtx |-> 0, outCtx |-> 0, session |-> 0]


\* ------------------------------------------------------------- teardown steps
\* The synchronous release steps of a teardown run over the objects the refs
\* point to.  A step whose guard fails changes nothing; a step that runs is
\* counted and logged for its caller.
Objs == [tracks |-> tracks, node |-> node, inCtx |-> inCtx, outCtx |-> outCtx,
         clips |-> clips, rel |-> rel, log |-> <<>>]

Did(st, i, what) ==
    [st EXCEPT !.rel[i][what] = @ + 1, !.log = Append(@, what)]

StopAll(cs, which) ==
    [k \in 1..Len(cs) |-> IF k \in which THEN [cs[k] EXCEPT !.stopped = TRUE] ELSE cs[k]]

VoiceStep(st, what) ==
    CASE what = "tracks" ->                       \* 39-41, 181-183
           IF streamRef # 0
           THEN [Did(st, streamRef, "tracks") EXCEPT !.tracks[streamRef] = "stopped"]
           ELSE st
      [] what = "node" ->                         \* 42-44, 184-186
           IF scriptProcessorRef # 0
           THEN [Did(st, scriptProcessorRef, "node")
                     EXCEPT !.node[scriptProcessorRef] = "disconnected"]
           ELSE st
      [] what = "source" ->                       \* 45-47, 187-189
           IF sourceRef # 0 THEN Did(st, sourceRef, "source") ELSE st
      [] what = "inCtx" ->                        \* 48-50: guarded by state !== 'closed'
           IF inputAudioContextRef # 0 /\ st.inCtx[inputAudioContextRef] # "closed"
           THEN [Did(st, inputAudioContextRef, "inCtx")
                     EXCEPT !.inCtx[inputAudioContextRef] = "closed"]
           ELSE st
      [] what = "clips" ->                        \* 53-54
           IF outputAudioContextRef # 0 /\ st.outCtx[outputAudioContextRef] # "closed"
           THEN [st EXCEPT !.clips = StopAll(@, audioSourcesRef),
                           !.log = Append(@, "clips")]
           ELSE st
      [] what = "outCtx" ->                       \* 53, 55
           IF outputAudioContextRef # 0 /\ st.outCtx[outputAudioContextRef] # "closed"
           THEN [Did(st, outputAudioContextRef, "outCtx")
                     EXCEPT !.outCtx[outputAudioContextRef] = "closed"]
           ELSE st
      [] what = "inCtxAlways" ->                  \* 190: ?.close() whatever the state
           IF inputAudioContextRef # 0
           THEN [Did(st, inputAudioContextRef, "inCtx")
                     EXCEPT !.inCtx[inputAudioContextRef] = "closed"]
           ELSE st
      [] what = "outCtxAlways" ->                 \* 191
           IF outputAudioContextRef # 0
           THEN [Did(st, outputAudioContextRef, "outCtx")
                     EXCEPT !.outCtx[outputAudioContextRef] = "closed"]
           ELSE st

RECURSIVE VoiceRun(_, _)
VoiceRun(st, steps) ==
    IF steps = <<>> THEN st ELSE VoiceRun(VoiceStep(st, Head(steps)), Tail(steps))

\* A teardown that closes the output context before the input context.
endInterviewStepsOutputFirst == <<"tracks", "node", "source", "outCtx", "clips", "inCtx">>

\* The order in which endInterview issues its synchronous releases (38-56).
endInterviewSteps == <<"tracks", "node", "source", "inCtx", "clips", "outCtx">>

\* The order in which the mount effect's cleanup issues them (181-191).
disposeSteps == <<"tracks", "node", "source", "inCtxAlways", "outCtxAlways">>

\* session.close() on the session a settled promise holds (62, 192, 314).
CloseSession(i, by) ==
    /\ conn' = [conn EXCEPT ![i] = "closed"]
    /\ rel' = [rel EXCEPT ![i].session = @ + 1]
    /\ tdLog' = [tdLog EXCEPT ![by] = Append(@, "session")]


\* ------------------------------------------------------------- inputs

\* A LiveServerMessage: optional input / output transcription text, the
\* turn-complete flag and an optional audio payload (its decoded duration).
NoMsg == [inp |-> <<>>, out |-> <<>>, tc |-> FALSE, audio |-> 0]

VoiceMessages ==
    {[NoMsg EXCEPT !.inp = <<c>>] : c \in Chars}
    \cup {[NoMsg EXCEPT !.out = <<c>>] : c \in Chars}
    \cup {[NoMsg EXCEPT !.audio = d] : d \in Durations}
    \cup {[NoMsg EXCEPT !.tc = TRUE],
          [NoMsg EXCEPT !.inp = <<"a">>, !.tc = TRUE]}

TextMessages == {m \in VoiceMessages : m.audio = 0}
AudioMessages == {m \in VoiceMessages : m.audio # 0}

RECURSIVE Flatten(_)
Flatten(ss) == IF ss = <<>> THEN <<>> ELSE Head(ss) \o Flatten(Tail(ss))

Msg(who, txt) == [speaker |-> who, text |-> txt]

\* ------------------------------------------------------------- App.tsx: the stored history
\* history.slice(0, 10) (App.tsx:39).
HistoryLimit == 10

\* What localStorage holds under 'interviewHistory': nothing ("missing"), or a
\* text that is the empty string ("empty"), is not JSON ("invalid"), is the
\* JSON of something that is not an array ("object"), or is the JSON of an
\* array of records ("array").
Stored(json, items) == [json |-> json, items |-> items]

\* JSON.stringify of an array (App.tsx:39).
Stringify(list) == Stored("array", list)

\* JSON.parse(localStorage.getItem('interviewHistory') || '[]') (App.tsx:37,
\* SetupScreen 602): the value, or the exception JSON.parse throws.
Parse(stored) ==
    CASE stored.json \in {"missing", "empty"} ->
             [threw |-> FALSE, isArray |-> TRUE, items |-> <<>>]
      [] stored.json = "invalid" -> [threw |-> TRUE, isArray |-> FALSE, items |-> <<>>]
      [] stored.json = "object" -> [threw |-> FALSE, isArray |-> FALSE, items |-> <<>>]
      [] stored.json = "array" ->
             [threw |-> FALSE, isArray |-> TRUE, items |-> stored.items]

\* array.slice(0, n).
Slice(list, n) == SubSeq(list, 1, IF Len(list) < n THEN Len(list) ELSE n)

\* A save that stores the whole list.
SavedHistoryUnbounded(stored, historyItem, readOk, writeOk) ==
    LET parsed == Parse(stored) IN
    IF ~readOk \/ parsed.threw \/ ~parsed.isArray \/ ~writeOk
    THEN stored
    ELSE Stringify(<<historyItem>> \o parsed.items)

\* The try block of handleInterviewEnd (App.tsx:36-42): the value stored
\* afterwards.  getItem or setItem may throw (readOk, writeOk); JSON.parse
\* throws on text that is not JSON; unshift is not a function of a value that
\* is not an array.  Every exception leaves the stored value as it was.
SavedHistory(stored, historyItem, readOk, writeOk) ==
    LET parsed == Parse(stored) IN
    IF ~readOk \/ parsed.threw \/ ~parsed.isArray \/ ~writeOk
    THEN stored
    ELSE Stringify(Slice(<<historyItem>> \o parsed.items, HistoryLimit))

\* The mount effect of SetupScreen (600-608): the value given to setHistory.
LoadedHistory(stored, readOk) ==
    LET parsed == Parse(stored) IN
    IF ~readOk \/ parsed.threw
    THEN [isArray |-> TRUE, items |-> <<>>]
    ELSE [isArray |-> parsed.isArray, items |-> parsed.items]

HistoricalInterview(id, t, r) == [id |-> id, transcript |-> t, report |-> r]

NoCall == [n |-> 0, transcript |-> <<>>, report |-> "null", readOk |-> TRUE,
           writeOk |-> TRUE]

\* A handler without the try / catch: a storage exception ends it.
handleInterviewEndUncaught(finalTranscript, report, readOk, writeOk) ==
    IF interviewConfig = "null"
    THEN UNCHANGED <<appState, storeVars>>
    ELSE /\ now' = now + 1
         /\ endCall' = [n |-> now', transcript |-> finalTranscript, report |-> report,
                        readOk |-> readOk, writeOk |-> writeOk]
         /\ interviewHistory' =
                SavedHistory(interviewHistory,
                             HistoricalInterview(now', finalTranscript, report),
                             readOk, writeOk)
         /\ IF readOk /\ writeOk
            THEN /\ appTranscript' = finalTranscript
                 /\ feedbackReport' = report
                 /\ appState' = "FEEDBACK"
            ELSE UNCHANGED <<appTranscript, feedbackReport, appState>>
         /\ UNCHANGED <<setupHistory, interviewConfig>>

\* handleInterviewEnd (App.tsx:25-47).
handleInterviewEnd(finalTranscript, report, readOk, writeOk) ==
    IF interviewConfig = "null"
    THEN UNCHANGED <<appState, storeVars>>
    ELSE /\ now' = now + 1
         /\ endCall' = [n |-> now', transcript |-> finalTranscript, report |-> report,
                        readOk |-> readOk, writeOk |-> writeOk]
         /\ interviewHistory' =
                SavedHistory(interviewHistory,
                             HistoricalInterview(now', finalTranscript, report),
                             readOk, writeOk)
         /\ appTranscript' = finalTranscript
         /\ feedbackReport' = report
         /\ appState' = "FEEDBACK"
         /\ UNCHANGED <<setupHistory, interviewConfig>>

\* ------------------------------------------------------------- initial state
\* The interview screen has just been mounted by handleStartInterview
\* (App.tsx:17-23, 70-72); nothing is stored yet.
InitMounted ==
    /\ mounted = TRUE
    /\ appState = "INTERVIEW"
    /\ interviewConfig = "config"
    /\ appTranscript = <<>> /\ feedbackReport = "null"
    /\ interviewHistory = Stored("missing", <<>>)
    /\ setupHistory = [isArray |-> TRUE, items |-> <<>>]
    /\ now = 0 /\ endCall = NoCall

\* decodeAudioData has not been called.
NoBuffer == [error |-> "none", channels |-> <<>>, outOfRange |-> {}]

\* No audioUtils call is being followed.
InitUtilIdle ==
    /\ data = <<>> /\ numChannels = 1
    /\ encoded = <<>> /\ decoded = <<>>
    /\ buffer = NoBuffer
    /\ utilPc = "idle"

InitCommon ==
    /\ delivered = <<>>
    /\ isMuted = FALSE
    /\ isMutedAtEffect = FALSE
    /\ isGeneratingReport = FALSE
    /\ streamRef = 0 /\ inputAudioContextRef = 0 /\ outputAudioContextRef = 0
    /\ sourceRef = 0
    /\ currentInputTranscriptionRef = <<>> /\ currentOutputTranscriptionRef = <<>>
    /\ nextStartTimeRef = 0 /\ audioSourcesRef = {}
    /\ sessionPromiseRef = 0 /\ scriptProcessorRef = 0
    /\ tracks = [i \in Ids |-> "none"]
    /\ inCtx = [i \in Ids |-> "none"]
    /\ outCtx = [i \in Ids |-> "none"]
    /\ node = [i \in Ids |-> "none"]
    /\ promise = [i \in Ids |-> "none"]
    /\ conn = [i \in Ids |-> "none"]
    /\ reactions = [i \in Ids |-> <<>>]
    /\ eiPc = "idle" /\ eiTranscript = <<>>
    /\ currentTime = 0 /\ pendingDecodes = <<>> /\ clips = <<>>
    /\ events = 0 /\ frameNo = 0 /\ sent = <<>>
    /\ rel = [i \in Ids |-> NoRel]
    /\ tdLog = [c \in Callers |-> <<>>]
    /\ isRecording = FALSE
    /\ audioStreamRef = 0 /\ audioContextsRef = 0 /\ mediaStreamSourceRef = 0
    /\ liveTranscriptionRef = <<>> /\ cleanupPerformedRef = FALSE
    /\ made = 0
    /\ hsPc = [i \in Ids |-> "none"]
    /\ hpPc = [j \in Ids |-> "idle"]
    /\ currentAiText = [e \in Exchanges |-> <<>>]
    /\ clPc = [c \in Callers |-> "idle"]
    /\ aiSlot = [e \in Exchanges |-> IF variant = "ptt" /\ e = 0 THEN 1 ELSE 0]
    /\ errorFired = FALSE /\ closeFired = FALSE /\ nodeOnClosedCtx = FALSE
    /\ turnLog = [USER |-> <<>>, AI |-> <<>>, before |-> <<>>, done |-> FALSE]
    /\ endedAt = "never"

\* The voice screen after its first render: the mount effect has called
\* startSession, which is suspended in getUserMedia (77-80, 178).
InitVoice ==
    /\ variant = "voice"
    /\ status = "Connecting..."
    /\ transcript = <<>>
    /\ ssPc = "awaitMic"
    /\ isAiTyping = FALSE
    /\ scPc = "none"
    /\ InitCommon
    /\ InitMounted /\ InitUtilIdle

\* ------------------------------------------------------------- voice: start
\* getUserMedia resolved: startSession runs to the end of its try block (81-170).
VoiceMicGranted ==
    /\ variant = "voice" /\ Idle
    /\ ssPc = "awaitMic"
    /\ ssPc' = "done"
    /\ streamRef' = 1 /\ inputAudioContextRef' = 1 /\ outputAudioContextRef' = 1
    /\ sessionPromiseRef' = 1
    /\ tracks' = [tracks EXCEPT ![1] = "live"]
    /\ inCtx' = [inCtx EXCEPT ![1] = "running"]
    /\ outCtx' = [outCtx EXCEPT ![1] = "running"]
    /\ promise' = [promise EXCEPT ![1] = "pending"]
    /\ conn' = [conn EXCEPT ![1] = "connecting"]
    /\ UNCHANGED <<pttVars, appVars, uiState, sourceRef, currentInputTranscriptionRef,
                   currentOutputTranscriptionRef, nextStartTimeRef, audioSourcesRef,
                   scriptProcessorRef, node, reactions, eiPc, eiTranscript,
                   playback, history>>

\* getUserMedia rejected: the catch block (172-175).
VoiceMicDenied ==
    /\ variant = "voice" /\ Idle
    /\ ssPc = "awaitMic"
    /\ ssPc' = "failed"
    /\ status' = SetState(status,
                    "Failed to access microphone. Please check permissions and refresh.")
    /\ UNCHANGED <<pttVars, appVars, transcript, isMuted, isGeneratingReport, refsVoice, refsBoth,
                   objects, eiPc, eiTranscript, playback, history>>

\* The handshake completed: the onopen callback (100-121).  On a context that
\* end() has already closed, createMediaStreamSource either throws
\* InvalidStateError (the callback ends there) or returns a node, depending on
\* the browser.
VoiceOnOpen ==
    /\ variant = "voice" /\ Idle
    /\ conn[1] = "connecting"
    /\ conn' = [conn EXCEPT ![1] = "onopen"]
    /\ status' = SetState(status, "Connected. The interview will begin shortly.")
    /\ \/ /\ inCtx[1] = "closed"                      \* line 102 throws
          /\ UNCHANGED <<sourceRef, scriptProcessorRef, node, nodeOnClosedCtx>>
       \/ /\ sourceRef' = 1                           \* 102-105, 119-120
          /\ scriptProcessorRef' = 1
          /\ node' = [node EXCEPT ![1] = "connected"]
          /\ nodeOnClosedCtx' = (nodeOnClosedCtx \/ inCtx[1] = "closed")
    /\ UNCHANGED <<pttVars, appVars, transcript, isMuted, isGeneratingReport, streamRef,
                   inputAudioContextRef, outputAudioContextRef,
                   currentInputTranscriptionRef, currentOutputTranscriptionRef,
                   nextStartTimeRef, audioSourcesRef, sessionPromiseRef,
                   tracks, inCtx, outCtx, promise, reactions,
                   pcs, playback, events, frameNo, sent, rel, tdLog,
                   errorFired, closeFired, turnLog, endedAt>>

\* ai.live.connect's promise resolves with the session, after onopen has run.
VoiceConnectResolved ==
    /\ variant = "voice" /\ Idle
    /\ conn[1] = "onopen"
    /\ promise' = [promise EXCEPT ![1] = "resolved"]
    /\ conn' = [conn EXCEPT ![1] = "open"]
    /\ UNCHANGED <<pttVars, appVars, uiState, refsVoice, refsBoth, tracks, inCtx, outCtx, node,
                   reactions, pcs, playback, history>>

\* The handshake failed: the promise rejects and the onerror callback runs (162-165).
VoiceConnectFailed ==
    /\ variant = "voice" /\ Idle
    /\ conn[1] = "connecting"
    /\ conn' = [conn EXCEPT ![1] = "failed"]
    /\ promise' = [promise EXCEPT ![1] = "rejected"]
    /\ status' = SetState(status, "Connection error. Please refresh and try again.")
    /\ errorFired' = TRUE
    /\ UNCHANGED <<pttVars, appVars, transcript, isMuted, isGeneratingReport, refsVoice, refsBoth,
                   tracks, inCtx, outCtx, node, reactions, pcs,
                   playback, events, frameNo, sent, rel, tdLog, closeFired,
                   nodeOnClosedCtx, turnLog, endedAt>>


\* ------------------------------------------------------------- voice: capture
\* scriptProcessor.onaudioprocess (107-118): one capture buffer.  The send is
\* registered on the connection promise; it runs in VoiceSendFrame.
VoiceAudioProcess ==
    /\ variant = "voice" /\ Idle
    /\ node[1] = "connected" /\ inCtx[1] = "running"
    /\ events < MaxEvents
    /\ events' = events + 1
    /\ frameNo' = frameNo + 1
    /\ reactions' =
         IF sessionPromiseRef # 0
         THEN [reactions EXCEPT ![sessionPromiseRef] =
                  Append(@, [k |-> "send", n |-> frameNo + 1, muted |-> isMuted])]
         ELSE reactions
    /\ UNCHANGED <<pttVars, appVars, uiState, refsVoice, refsBoth, tracks, inCtx, outCtx, node,
                   promise, conn, pcs, playback, sent, rel, tdLog, errorFired,
                   closeFired, nodeOnClosedCtx, turnLog, endedAt>>

\* What the frame handler reads as isMuted (114): the value its closure was
\* created with, i.e. the one of the render whose effect ran (77, 195).
FrameHandlerIsMuted == isMutedAtEffect

\* The .then callback of line 113-117, once the promise is settled.
VoiceSendFrame ==
    /\ variant = "voice"
    /\ \E i \in Ids :
         /\ promise[i] \in {"resolved", "rejected"}
         /\ reactions[i] # <<>> /\ Head(reactions[i]).k = "send"
         /\ reactions' = [reactions EXCEPT ![i] = Tail(@)]
         /\ sent' = IF promise[i] = "resolved" /\ ~FrameHandlerIsMuted
                    THEN Append(sent, [n |-> Head(reactions[i]).n,
                                       muted |-> Head(reactions[i]).muted,
                                       conn |-> conn[i]])
                    ELSE sent
    /\ UNCHANGED <<pttVars, appVars, uiState, refsVoice, refsBoth, tracks, inCtx, outCtx, node,
                   promise, conn, pcs, playback, events, frameNo, rel, tdLog,
                   errorFired, closeFired, nodeOnClosedCtx, turnLog, endedAt>>

\* A mute button that also stops the capture tracks.
VoiceToggleMuteStopsTracks ==
    /\ variant = "voice" /\ Idle
    /\ mounted /\ ~isGeneratingReport
    /\ isMuted' = ~isMuted
    /\ tracks' = IF streamRef # 0 THEN [tracks EXCEPT ![streamRef] = "stopped"] ELSE tracks
    /\ UNCHANGED <<pttVars, appVars, status, transcript, isGeneratingReport, refsVoice, refsBoth,
                   inCtx, outCtx, node, promise, conn, reactions, pcs, playback, history>>

\* The mute button (233).
VoiceToggleMute ==
    /\ variant = "voice" /\ Idle
    /\ mounted /\ ~isGeneratingReport
    /\ isMuted' = ~isMuted
    /\ UNCHANGED <<pttVars, appVars, status, transcript, isGeneratingReport, refsVoice, refsBoth,
                   objects, pcs, playback, history>>

\* An accumulator that keeps only the latest fragment.
AccumulateOverwrite(acc, frag) == frag

\* ------------------------------------------------------------- voice: messages
\* The accumulation of one transcription fragment (124, 127).
Accumulate(acc, frag) == acc \o frag

\* An updater that pushes the AI message before the USER message.
TurnMessagesAiFirst(inp, out) ==
    (IF Trim(out) # <<>> THEN <<Msg("AI", Trim(out))>> ELSE <<>>)
    \o (IF Trim(inp) # <<>> THEN <<Msg("USER", Trim(inp))>> ELSE <<>>)

\* The messages the turn-complete updater appends (131-137).
TurnMessages(inp, out) ==
    (IF Trim(inp) # <<>> THEN <<Msg("USER", Trim(inp))>> ELSE <<>>)
    \o (IF Trim(out) # <<>> THEN <<Msg("AI", Trim(out))>> ELSE <<>>)

\* onmessage (122-149), up to the await of line 150.
VoiceOnMessage(m) ==
    /\ variant = "voice" /\ NoMicrotask
    /\ conn[1] = "open"
    /\ events < MaxEvents
    /\ events' = events + 1
    /\ LET out == IF m.out # <<>> THEN Accumulate(currentOutputTranscriptionRef, m.out)
                  ELSE currentOutputTranscriptionRef
           inp == IF m.inp # <<>> THEN Accumulate(currentInputTranscriptionRef, m.inp)
                  ELSE currentInputTranscriptionRef
           sinceUser == IF turnLog.done THEN <<>> ELSE turnLog.USER
           sinceAi   == IF turnLog.done THEN <<>> ELSE turnLog.AI
           ghostIn   == IF m.inp # <<>> THEN Append(sinceUser, m.inp) ELSE sinceUser
           ghostOut  == IF m.out # <<>> THEN Append(sinceAi, m.out) ELSE sinceAi
       IN  IF m.tc /\ mounted
           THEN /\ transcript' = transcript \o TurnMessages(inp, out)
                /\ currentInputTranscriptionRef' = <<>>
                /\ currentOutputTranscriptionRef' = <<>>
                /\ turnLog' = [USER |-> ghostIn, AI |-> ghostOut,
                               before |-> transcript, done |-> TRUE]
           ELSE /\ transcript' = transcript
                /\ currentInputTranscriptionRef' = inp
                /\ currentOutputTranscriptionRef' = out
                /\ turnLog' = [USER |-> ghostIn, AI |-> ghostOut,
                               before |-> <<>>, done |-> FALSE]
    /\ m.audio # 0 => Len(clips) + Len(pendingDecodes) < MaxClips
    /\ IF m.audio # 0 /\ outputAudioContextRef # 0              \* 144-149
       THEN \E t \in currentTime..MaxTime :
              /\ outCtx[outputAudioContextRef] # "running" => t = currentTime
              /\ currentTime' = t
              /\ nextStartTimeRef' = Max(nextStartTimeRef, t)
              /\ pendingDecodes' = Append(pendingDecodes,
                     [dur |-> m.audio, recv |-> t, cursor |-> nextStartTimeRef,
                      first |-> pendingDecodes = <<>>,
                      n |-> Len(clips) + Len(pendingDecodes) + 1])
       ELSE UNCHANGED <<currentTime, nextStartTimeRef, pendingDecodes>>
    /\ UNCHANGED <<pttVars, appVars, status, isMuted, isGeneratingReport, streamRef,
                   inputAudioContextRef, outputAudioContextRef, sourceRef,
                   audioSourcesRef, refsBoth, objects, pcs, clips, frameNo, sent, rel,
                   tdLog, errorFired, closeFired, nodeOnClosedCtx, endedAt>>

\* A cursor that is not advanced past the clip just scheduled.
AdvanceCursorStuck(cursor, d) == cursor

\* The cursor after a clip of duration d was started (158).
AdvanceCursor(cursor, d) == cursor + d

\* Decodes that complete in any order: whichever suspended handler resumes
\* schedules its clip at the cursor.
VoiceDecodedAnyOrder ==
    /\ variant = "voice"
    /\ \E j \in 1..Len(pendingDecodes) :
         LET d == pendingDecodes[j] IN
         /\ clips' = Append(clips, [start |-> nextStartTimeRef, dur |-> d.dur,
                                    recv |-> d.recv, cursor |-> d.cursor,
                                    solo |-> d.first /\ Len(pendingDecodes) = 1,
                                    stopped |-> FALSE, ended |-> FALSE, n |-> d.n])
         /\ nextStartTimeRef' = AdvanceCursor(nextStartTimeRef, d.dur)
         /\ audioSourcesRef' = audioSourcesRef \cup {Len(clips) + 1}
         /\ pendingDecodes' = SubSeq(pendingDecodes, 1, j - 1)
                                  \o SubSeq(pendingDecodes, j + 1, Len(pendingDecodes))
    /\ UNCHANGED <<pttVars, appVars, uiState, streamRef, inputAudioContextRef,
                   outputAudioContextRef, sourceRef, currentInputTranscriptionRef,
                   currentOutputTranscriptionRef, refsBoth, objects, pcs, currentTime,
                   history>>

\* onmessage after `await decodeAudioData` (151-159).  decodeAudioData
\* (src/utils/audioUtils.ts:42-60) awaits nothing, so the suspended calls
\* resume in the order they were suspended.
VoiceDecoded ==
    /\ variant = "voice"
    /\ pendingDecodes # <<>>
    /\ LET d == Head(pendingDecodes) IN
         /\ clips' = Append(clips, [start |-> nextStartTimeRef, dur |-> d.dur,
                                    recv |-> d.recv, cursor |-> d.cursor,
                                    solo |-> d.first /\ Len(pendingDecodes) = 1,
                                    stopped |-> FALSE, ended |-> FALSE, n |-> d.n])
         /\ nextStartTimeRef' = AdvanceCursor(nextStartTimeRef, d.dur)
         /\ audioSourcesRef' = audioSourcesRef \cup {Len(clips) + 1}
    /\ pendingDecodes' = Tail(pendingDecodes)
    /\ UNCHANGED <<pttVars, appVars, uiState, streamRef, inputAudioContextRef,
                   outputAudioContextRef, sourceRef, currentInputTranscriptionRef,
                   currentOutputTranscriptionRef, refsBoth, objects, pcs, currentTime,
                   history>>

\* A clip's 'ended' listener (154-156): it fires when the clip was stopped or
\* has played to its end on a running context.
VoiceClipEnded(k) ==
    /\ variant = "voice" /\ Idle
    /\ k \in 1..Len(clips) /\ ~clips[k].ended
    /\ \/ /\ clips[k].stopped
          /\ currentTime' = currentTime
       \/ /\ ~clips[k].stopped /\ outCtx[1] = "running"
          /\ clips[k].start + clips[k].dur <= MaxTime
          /\ currentTime' = Max(currentTime, clips[k].start + clips[k].dur)
    /\ clips' = [clips EXCEPT ![k].ended = TRUE]
    /\ audioSourcesRef' = audioSourcesRef \ {k}
    /\ UNCHANGED <<pttVars, appVars, uiState, streamRef, inputAudioContextRef,
                   outputAudioContextRef, sourceRef, currentInputTranscriptionRef,
                   currentOutputTranscriptionRef, nextStartTimeRef, refsBoth, objects,
                   pcs, pendingDecodes, history>>

\* onerror (162-165): a transport error on the open connection.
VoiceOnError ==
    /\ variant = "voice" /\ Idle
    /\ conn[1] = "open"
    /\ conn' = [conn EXCEPT ![1] = "errored"]
    /\ status' = SetState(status, "Connection error. Please refresh and try again.")
    /\ errorFired' = TRUE
    /\ UNCHANGED <<pttVars, appVars, transcript, isMuted, isGeneratingReport, refsVoice, refsBoth,
                   tracks, inCtx, outCtx, node, promise, reactions, pcs, playback,
                   events, frameNo, sent, rel, tdLog, closeFired, nodeOnClosedCtx,
                   turnLog, endedAt>>

\* onclose (166-168): the connection has closed (after close() or an error).
VoiceOnClose ==
    /\ variant = "voice" /\ Idle
    /\ conn[1] \in {"closed", "errored"} /\ ~closeFired
    /\ closeFired' = TRUE
    /\ status' = SetState(status, "Interview session ended.")
    /\ UNCHANGED <<pttVars, appVars, transcript, isMuted, isGeneratingReport, refsVoice, refsBoth,
                   objects, pcs, playback, events, frameNo, sent, rel, tdLog,
                   errorFired, nodeOnClosedCtx, turnLog, endedAt>>


\* ------------------------------------------------------------- voice: end
\* The End Interview button (236): endInterview up to its first await (34-61).
\* The button is rendered only while isGeneratingReport is false (206-214).
VoiceEndInterview ==
    /\ variant = "voice" /\ Idle
    /\ mounted /\ ~isGeneratingReport
    /\ status' = "Generating your feedback report..."
    /\ isGeneratingReport' = TRUE
    /\ eiTranscript' = transcript
    /\ endedAt' = IF endedAt # "never" THEN endedAt
                  ELSE IF streamRef = 0 THEN "no stream" ELSE conn[streamRef]
    /\ LET st == VoiceRun(Objs, endInterviewSteps) IN
         /\ tracks' = st.tracks /\ node' = st.node
         /\ inCtx' = st.inCtx /\ outCtx' = st.outCtx
         /\ clips' = st.clips /\ rel' = st.rel
         /\ tdLog' = [tdLog EXCEPT !["end"] = st.log]
    /\ IF sessionPromiseRef # 0                                   \* 59-61
       THEN /\ reactions' = [reactions EXCEPT ![sessionPromiseRef] =
                                Append(@, [k |-> "end"])]
            /\ eiPc' = "awaitSession"
       ELSE /\ reactions' = reactions                             \* 68-69
            /\ eiPc' = "awaitReport"
    /\ UNCHANGED <<pttVars, appVars, transcript, isMuted, refsVoice, refsBoth, promise, conn,
                   ssPc, currentTime, pendingDecodes, events, frameNo, sent,
                   errorFired, closeFired, nodeOnClosedCtx, turnLog>>

\* endInterview after `await sessionPromiseRef.current` (61-69): close the
\* session, or catch the rejection; then call the report generator.
VoiceEndAfterAwait ==
    /\ variant = "voice"
    /\ \E i \in Ids :
         /\ promise[i] \in {"resolved", "rejected"}
         /\ reactions[i] # <<>> /\ Head(reactions[i]).k = "end"
         /\ reactions' = [reactions EXCEPT ![i] = Tail(@)]
         /\ IF promise[i] = "resolved"
            THEN CloseSession(i, "end")
            ELSE UNCHANGED <<conn, rel, tdLog>>
    /\ eiPc' = "awaitReport"
    /\ UNCHANGED <<pttVars, appVars, uiState, refsVoice, refsBoth, tracks, inCtx, outCtx, node,
                   promise, ssPc, eiTranscript, playback, events, frameNo, sent,
                   errorFired, closeFired, nodeOnClosedCtx, turnLog, endedAt>>

\* generateFeedbackReport resolved (69-70): onInterviewEnd hands the transcript
\* to the flow controller, which shows the feedback view (App.tsx:25-47).
VoiceReportOk ==
    /\ variant = "voice" /\ Idle
    /\ eiPc = "awaitReport"
    /\ eiPc' = "done"
    /\ delivered' = <<eiTranscript>>
    /\ \E readOk, writeOk \in BOOLEAN :
         handleInterviewEnd(eiTranscript, "report", readOk, writeOk)
    /\ UNCHANGED <<pttVars, variant, mounted, isMutedAtEffect, utilVars, uiState, refsVoice, refsBoth,
                   objects, ssPc, eiTranscript, playback, history>>

\* generateFeedbackReport rejected (71-74).
VoiceReportFailed ==
    /\ variant = "voice" /\ Idle
    /\ eiPc = "awaitReport"
    /\ eiPc' = "failed"
    /\ status' = SetState(status, "Error generating report. Please try again.")
    /\ UNCHANGED <<pttVars, appVars, transcript, isMuted, isGeneratingReport, refsVoice, refsBoth,
                   objects, ssPc, eiTranscript, playback, history>>

\* The flow controller left the INTERVIEW state (App.tsx:46, 70-75): the
\* screen unmounts and the mount effect's cleanup runs (180-193).
VoiceUnmount ==
    /\ variant = "voice" /\ Idle
    /\ mounted /\ appState = "FEEDBACK"
    /\ mounted' = FALSE
    /\ LET st == VoiceRun(Objs, disposeSteps) IN
         /\ tracks' = st.tracks /\ node' = st.node
         /\ inCtx' = st.inCtx /\ outCtx' = st.outCtx
         /\ clips' = st.clips /\ rel' = st.rel
         /\ tdLog' = [tdLog EXCEPT !["dispose"] = st.log]
    /\ reactions' =                                               \* 192
         IF sessionPromiseRef # 0
         THEN [reactions EXCEPT ![sessionPromiseRef] = Append(@, [k |-> "dispose"])]
         ELSE reactions
    /\ UNCHANGED <<pttVars, variant, appState, delivered, isMutedAtEffect, storeVars,
                   utilVars, uiState, refsVoice,
                   refsBoth, promise, conn, pcs, currentTime, pendingDecodes, events,
                   frameNo, sent, errorFired, closeFired, nodeOnClosedCtx, turnLog, endedAt>>

\* The cleanup's `.then(session => session.close())` (192).
VoiceDisposeClose ==
    /\ variant = "voice"
    /\ \E i \in Ids :
         /\ promise[i] \in {"resolved", "rejected"}
         /\ reactions[i] # <<>> /\ Head(reactions[i]).k = "dispose"
         /\ reactions' = [reactions EXCEPT ![i] = Tail(@)]
         /\ IF promise[i] = "resolved"
            THEN CloseSession(i, "dispose")
            ELSE UNCHANGED <<conn, rel, tdLog>>
    /\ UNCHANGED <<pttVars, appVars, uiState, refsVoice, refsBoth, tracks, inCtx, outCtx, node,
                   promise, pcs, playback, events, frameNo, sent,
                   errorFired, closeFired, nodeOnClosedCtx, turnLog, endedAt>>

\* The session's life cycle: start, connection events, end, report, unmount.
VoiceLifecycle ==
    \/ VoiceMicGranted
    \/ VoiceMicDenied
    \/ VoiceOnOpen
    \/ VoiceConnectResolved
    \/ VoiceConnectFailed
    \/ VoiceOnError
    \/ VoiceOnClose
    \/ VoiceEndInterview
    \/ VoiceEndAfterAwait
    \/ VoiceReportOk
    \/ VoiceReportFailed
    \/ VoiceUnmount
    \/ VoiceDisposeClose

\* The voice screen with its capture path: frames and the mute button.
NextVoice ==
    \/ VoiceLifecycle
    \/ VoiceAudioProcess
    \/ VoiceSendFrame
    \/ VoiceToggleMute

SpecVoice == InitVoice /\ [][NextVoice]_vars

\* The voice screen receiving transcription fragments and turn-complete signals.
NextVoiceText ==
    \/ VoiceLifecycle
    \/ \E m \in TextMessages : VoiceOnMessage(m)

SpecVoiceText == InitVoice /\ [][NextVoiceText]_vars

\* The voice screen receiving audio payloads.
NextVoiceAudio ==
    \/ VoiceLifecycle
    \/ \E m \in AudioMessages : VoiceOnMessage(m)
    \/ VoiceDecoded
    \/ \E k \in 1..MaxClips : VoiceClipEnded(k)

SpecVoiceAudio == InitVoice /\ [][NextVoiceAudio]_vars


\* ============================================================= push-to-talk
\* The push-to-talk screen after its mount effect (471-514): the chat exists
\* and startConversation is suspended in sendMessageStream, having set the
\* transcript to one empty AI message.
InitPtt ==
    /\ variant = "ptt"
    /\ status = "AI is preparing..."
    /\ transcript = <<Msg("AI", <<>>)>>
    /\ isAiTyping = TRUE
    /\ scPc = "streaming"
    /\ ssPc = "none"
    /\ InitCommon
    /\ InitMounted /\ InitUtilIdle

\* setTranscript(prev => { copy; copy[copy.length - 1] = m; return copy })
\* (355-359, 423-427, 493-497).
ReplaceLast(t, m) ==
    IF t = <<>> THEN t ELSE [t EXCEPT ![Len(t)] = m]

\* ------------------------------------------------------------- cleanupLiveSession
\* The values one cleanupLiveSession call reads and writes.
ClState(c) ==
    [tracks |-> tracks, node |-> node, inCtx |-> inCtx, outCtx |-> outCtx,
     rel |-> rel, log |-> tdLog[c],
     stream |-> audioStreamRef, proc |-> scriptProcessorRef,
     src |-> mediaStreamSourceRef, ctxs |-> audioContextsRef,
     sess |-> sessionPromiseRef, performed |-> cleanupPerformedRef,
     reactions |-> reactions, pc |-> clPc[c]]

ClApply(st, c) ==
    /\ tracks' = st.tracks /\ node' = st.node
    /\ inCtx' = st.inCtx /\ outCtx' = st.outCtx
    /\ rel' = st.rel
    /\ tdLog' = [tdLog EXCEPT ![c] = st.log]
    /\ audioStreamRef' = st.stream /\ scriptProcessorRef' = st.proc
    /\ mediaStreamSourceRef' = st.src /\ audioContextsRef' = st.ctxs
    /\ sessionPromiseRef' = st.sess /\ cleanupPerformedRef' = st.performed
    /\ reactions' = st.reactions
    /\ clPc' = [clPc EXCEPT ![c] = st.pc]

\* Lines 283-297: stop the tracks, disconnect the nodes, null the refs.
ClSync(st) ==
    LET a == IF st.stream # 0
             THEN [Did(st, st.stream, "tracks")
                       EXCEPT !.tracks[st.stream] = "stopped", !.stream = 0]
             ELSE st
        b == IF a.proc # 0
             THEN [Did(a, a.proc, "node")
                       EXCEPT !.node[a.proc] = "disconnected", !.proc = 0]
             ELSE a
    IN  IF b.src # 0 THEN [Did(b, b.src, "source") EXCEPT !.src = 0] ELSE b

\* Lines 310-321: await the connection promise if there is one; otherwise set
\* the guard flag and return.
ClSession(st, c) ==
    IF st.sess # 0
    THEN [st EXCEPT !.reactions[st.sess] = Append(@, [k |-> "cleanup", c |-> c]),
                    !.pc = "session"]
    ELSE [st EXCEPT !.performed = TRUE, !.pc = "done"]

\* Lines 300-302: close the input context.  close() on a closed context
\* rejects; the catch of 304 then skips the output context (307).
ClCloseInput(st, c) ==
    IF st.ctxs = 0 THEN ClSession(st, c)
    ELSE IF st.inCtx[st.ctxs] = "closed"
         THEN ClSession([Did(st, st.ctxs, "inCtx") EXCEPT !.ctxs = 0], c)
         ELSE [Did(st, st.ctxs, "inCtx")
                   EXCEPT !.inCtx[st.ctxs] = "closed", !.pc = "inClose"]

\* Line 303, after the input context has closed.  The ref is read again: a
\* null ref throws into the catch of 304.
ClCloseOutput(st, c) ==
    IF st.ctxs = 0 THEN ClSession(st, c)
    ELSE IF st.outCtx[st.ctxs] = "closed"
         THEN ClSession([Did(st, st.ctxs, "outCtx") EXCEPT !.ctxs = 0], c)
         ELSE [Did(st, st.ctxs, "outCtx")
                   EXCEPT !.outCtx[st.ctxs] = "closed", !.pc = "outClose"]

\* A call of cleanupLiveSession up to its first suspension (281-313).
ClBegin(st, c) ==
    IF st.performed
    THEN [st EXCEPT !.log = <<>>, !.pc = "done"]
    ELSE ClCloseInput(ClSync([st EXCEPT !.log = <<>>]), c)

\* The input context has closed: line 303.
PttCleanupInClosed(c) ==
    /\ variant = "ptt" /\ Idle
    /\ clPc[c] = "inClose"
    /\ ClApply(ClCloseOutput(ClState(c), c), c)
    /\ UNCHANGED <<appVars, uiState, refsVoice, promise, conn, pcs, playback,
                   events, frameNo, sent, errorFired, closeFired, nodeOnClosedCtx,
                   turnLog, endedAt, pttState, liveTranscriptionRef, made, hsPc, hpPc,
                   scPc, currentAiText, aiSlot>>

\* The output context has closed: lines 307-313.
PttCleanupOutClosed(c) ==
    /\ variant = "ptt" /\ Idle
    /\ clPc[c] = "outClose"
    /\ ClApply(ClSession([ClState(c) EXCEPT !.ctxs = 0], c), c)
    /\ UNCHANGED <<appVars, uiState, refsVoice, promise, conn, pcs, playback,
                   events, frameNo, sent, errorFired, closeFired, nodeOnClosedCtx,
                   turnLog, endedAt, pttState, liveTranscriptionRef, made, hsPc, hpPc,
                   scPc, currentAiText, aiSlot>>

\* cleanupLiveSession after `await sessionPromiseRef.current` (313-321).
PttCleanupAfterAwait ==
    /\ variant = "ptt"
    /\ \E i \in Ids :
         /\ promise[i] \in {"resolved", "rejected"}
         /\ reactions[i] # <<>> /\ Head(reactions[i]).k = "cleanup"
         /\ LET c == Head(reactions[i]).c IN
              /\ reactions' = [reactions EXCEPT ![i] = Tail(@)]
              /\ IF promise[i] = "resolved"
                 THEN CloseSession(i, c)
                 ELSE UNCHANGED <<conn, rel, tdLog>>
              /\ clPc' = [clPc EXCEPT ![c] = "done"]
    /\ sessionPromiseRef' = 0
    /\ cleanupPerformedRef' = TRUE
    /\ UNCHANGED <<appVars, uiState, refsVoice, scriptProcessorRef, tracks, inCtx,
                   outCtx, node, promise, pcs, playback, events, frameNo, sent,
                   errorFired, closeFired, nodeOnClosedCtx, turnLog, endedAt,
                   pttState, audioStreamRef, audioContextsRef, mediaStreamSourceRef,
                   liveTranscriptionRef, made, hsPc, hpPc, scPc, currentAiText, aiSlot>>

\* ------------------------------------------------------------- ptt: text exchange
\* A chunk of the opening AI message arrives (491-498).
PttStartChunk(c) ==
    /\ variant = "ptt" /\ Idle
    /\ scPc = "streaming" /\ events < MaxEvents
    /\ events' = events + 1
    /\ currentAiText' = [currentAiText EXCEPT ![0] = @ \o c]
    /\ transcript' = SetState(transcript,
                               ReplaceLast(transcript, Msg("AI", currentAiText'[0])))
    /\ UNCHANGED <<appVars, status, isMuted, isGeneratingReport, refsVoice, refsBoth,
                   objects, pcs, playback, frameNo, sent, rel, tdLog, errorFired,
                   closeFired, nodeOnClosedCtx, turnLog, endedAt, pttState, pttRefs,
                   made, hsPc, hpPc, scPc, clPc, aiSlot>>

\* The opening stream ends: the finally block (502-505).
PttStartStreamDone ==
    /\ variant = "ptt" /\ Idle
    /\ scPc = "streaming"
    /\ scPc' = "done"
    /\ aiSlot' = [aiSlot EXCEPT ![0] = 0]
    /\ currentAiText' = [currentAiText EXCEPT ![0] = <<>>]
    /\ isAiTyping' = SetState(isAiTyping, FALSE)
    /\ status' = SetState(status, "Ready for your answer.")
    /\ UNCHANGED <<appVars, transcript, isMuted, isGeneratingReport, refsVoice, refsBoth,
                   objects, pcs, playback, history, isRecording, pttRefs,
                   made, hsPc, hpPc, clPc>>

\* The opening stream throws: catch, then finally (499-505).
PttStartStreamFailed ==
    /\ variant = "ptt" /\ Idle
    /\ scPc = "streaming"
    /\ scPc' = "done"
    /\ aiSlot' = [aiSlot EXCEPT ![0] = 0]
    /\ currentAiText' = [currentAiText EXCEPT ![0] = <<>>]
    /\ isAiTyping' = SetState(isAiTyping, FALSE)
    /\ status' = SetState(status, "Ready for your answer.")
    /\ UNCHANGED <<appVars, transcript, isMuted, isGeneratingReport, refsVoice, refsBoth,
                   objects, pcs, playback, history, isRecording, pttRefs,
                   made, hsPc, hpPc, clPc>>

\* ------------------------------------------------------------- ptt: recording
\* A click on Record Answer: handleStartRecording up to getUserMedia (374-386).
\* The button is rendered while not recording and enabled while the AI is
\* not typing (552-556).
PttStartRecording ==
    /\ variant = "ptt" /\ Idle /\ mounted /\ ~isGeneratingReport
    /\ ~isRecording /\ ~isAiTyping
    /\ made < MaxRec
    /\ made' = made + 1
    /\ hsPc' = [hsPc EXCEPT ![made + 1] = "awaitMic"]
    /\ isRecording' = TRUE
    /\ status' = "Listening..."
    /\ liveTranscriptionRef' = <<>>
    /\ cleanupPerformedRef' = FALSE
    /\ transcript' = Append(transcript, Msg("USER", <<"...">>))
    /\ UNCHANGED <<appVars, isMuted, isGeneratingReport, refsVoice, refsBoth, objects,
                   pcs, playback, history, isAiTyping, audioStreamRef, audioContextsRef,
                   mediaStreamSourceRef, hpPc, scPc, currentAiText, clPc, aiSlot>>

\* getUserMedia resolved: the contexts are made and the connection is
\* started; the handler awaits the connection promise (386-440).
PttMicGranted(i) ==
    /\ variant = "ptt" /\ Idle
    /\ hsPc[i] = "awaitMic"
    /\ hsPc' = [hsPc EXCEPT ![i] = "connecting"]
    /\ audioStreamRef' = i /\ audioContextsRef' = i /\ sessionPromiseRef' = i
    /\ tracks' = [tracks EXCEPT ![i] = "live"]
    /\ inCtx' = [inCtx EXCEPT ![i] = "running"]
    /\ outCtx' = [outCtx EXCEPT ![i] = "running"]
    /\ promise' = [promise EXCEPT ![i] = "pending"]
    /\ conn' = [conn EXCEPT ![i] = "connecting"]
    /\ reactions' = [reactions EXCEPT ![i] = Append(@, [k |-> "start", i |-> i])]
    /\ UNCHANGED <<appVars, uiState, refsVoice, scriptProcessorRef, node, pcs, playback,
                   history, pttState, mediaStreamSourceRef, liveTranscriptionRef,
                   cleanupPerformedRef, made, hpPc, scPc, currentAiText, clPc, aiSlot>>

\* A catch block that reports the failure but leaves the recording flag set.
PttMicDeniedKeepsFlag(i) ==
    /\ variant = "ptt" /\ Idle
    /\ hsPc[i] = "awaitMic"
    /\ hsPc' = [hsPc EXCEPT ![i] = "done"]
    /\ status' = SetState(status, "Mic error. Check permissions.")
    /\ UNCHANGED <<appVars, transcript, isMuted, isGeneratingReport, refsVoice, refsBoth,
                   objects, pcs, playback, history, pttState, pttRefs, made, hpPc,
                   scPc, currentAiText, clPc, aiSlot>>

\* getUserMedia rejected: the catch block (441-445).
PttMicDenied(i) ==
    /\ variant = "ptt" /\ Idle
    /\ hsPc[i] = "awaitMic"
    /\ hsPc' = [hsPc EXCEPT ![i] = "done"]
    /\ status' = SetState(status, "Mic error. Check permissions.")
    /\ isRecording' = SetState(isRecording, FALSE)
    /\ UNCHANGED <<appVars, transcript, isMuted, isGeneratingReport, refsVoice, refsBoth,
                   objects, pcs, playback, history, isAiTyping, pttRefs, made, hpPc,
                   scPc, currentAiText, clPc, aiSlot>>

\* onopen (402-418).  createMediaStreamSource on a closed context either
\* throws or yields a node, depending on the browser.
PttOnOpen(i) ==
    /\ variant = "ptt" /\ Idle
    /\ conn[i] = "connecting"
    /\ conn' = [conn EXCEPT ![i] = "onopen"]
    /\ \/ /\ inCtx[i] = "closed"
          /\ UNCHANGED <<mediaStreamSourceRef, scriptProcessorRef, node, nodeOnClosedCtx>>
       \/ /\ mediaStreamSourceRef' = i /\ scriptProcessorRef' = i
          /\ node' = [node EXCEPT ![i] = "connected"]
          /\ nodeOnClosedCtx' = (nodeOnClosedCtx \/ inCtx[i] = "closed")
    /\ UNCHANGED <<appVars, uiState, refsVoice, sessionPromiseRef, tracks, inCtx, outCtx,
                   promise, reactions, pcs, playback, events, frameNo, sent, rel, tdLog,
                   errorFired, closeFired, turnLog, endedAt, pttState, audioStreamRef,
                   audioContextsRef, liveTranscriptionRef, cleanupPerformedRef, pttPcs>>

\* The connection promise resolves with the session.
PttConnectResolved(i) ==
    /\ variant = "ptt" /\ Idle
    /\ conn[i] = "onopen"
    /\ conn' = [conn EXCEPT ![i] = "open"]
    /\ promise' = [promise EXCEPT ![i] = "resolved"]
    /\ UNCHANGED <<appVars, uiState, refsVoice, refsBoth, tracks, inCtx, outCtx, node,
                   reactions, pcs, playback, history, pttVars>>

\* The connection fails before it opens: onerror (436), and the promise rejects.
PttConnectFailed(i) ==
    /\ variant = "ptt" /\ Idle
    /\ conn[i] = "connecting"
    /\ conn' = [conn EXCEPT ![i] = "failed"]
    /\ promise' = [promise EXCEPT ![i] = "rejected"]
    /\ status' = SetState(status, "Session error.")
    /\ errorFired' = TRUE
    /\ UNCHANGED <<appVars, transcript, isMuted, isGeneratingReport, refsVoice, refsBoth,
                   tracks, inCtx, outCtx, node, reactions, pcs, playback, events,
                   frameNo, sent, rel, tdLog, closeFired, nodeOnClosedCtx, turnLog,
                   endedAt, pttVars>>

\* A handler that calls itself again when the connection promise rejects.
PttStartAfterAwaitRetries ==
    /\ variant = "ptt"
    /\ \E i \in Ids :
         /\ promise[i] \in {"resolved", "rejected"}
         /\ reactions[i] # <<>> /\ Head(reactions[i]).k = "start"
         /\ reactions' = [reactions EXCEPT ![i] = Tail(@)]
         /\ IF promise[i] = "resolved"
            THEN /\ hsPc' = [hsPc EXCEPT ![i] = "done"]
                 /\ UNCHANGED <<status, isRecording>>
            ELSE /\ hsPc' = [hsPc EXCEPT ![i] = "awaitMic"]
                 /\ status' = SetState(status, "Listening...")
                 /\ UNCHANGED isRecording
    /\ UNCHANGED <<appVars, transcript, isMuted, isGeneratingReport, refsVoice, refsBoth,
                   tracks, inCtx, outCtx, node, promise, conn, pcs, playback, history,
                   isAiTyping, pttRefs, made, hpPc, scPc, currentAiText, clPc, aiSlot>>

\* handleStartRecording after `await sessionPromiseRef.current` (440-445).
PttStartAfterAwait ==
    /\ variant = "ptt"
    /\ \E i \in Ids :
         /\ promise[i] \in {"resolved", "rejected"}
         /\ reactions[i] # <<>> /\ Head(reactions[i]).k = "start"
         /\ reactions' = [reactions EXCEPT ![i] = Tail(@)]
         /\ hsPc' = [hsPc EXCEPT ![i] = "done"]
         /\ IF promise[i] = "resolved"
            THEN UNCHANGED <<status, isRecording>>
            ELSE /\ status' = SetState(status, "Mic error. Check permissions.")
                 /\ isRecording' = SetState(isRecording, FALSE)
    /\ UNCHANGED <<appVars, transcript, isMuted, isGeneratingReport, refsVoice, refsBoth,
                   tracks, inCtx, outCtx, node, promise, conn, pcs, playback, history,
                   isAiTyping, pttRefs, made, hpPc, scPc, currentAiText, clPc, aiSlot>>

\* onaudioprocess (408-415): a frame is handed to the connection promise
\* the ref holds at that moment.
PttAudioProcess(i) ==
    /\ variant = "ptt" /\ Idle
    /\ node[i] = "connected" /\ inCtx[i] = "running"
    /\ events < MaxEvents
    /\ events' = events + 1
    /\ frameNo' = frameNo + 1
    /\ IF sessionPromiseRef # 0
       THEN reactions' = [reactions EXCEPT ![sessionPromiseRef] =
                              Append(@, [k |-> "send", n |-> frameNo + 1, muted |-> FALSE])]
       ELSE UNCHANGED reactions
    /\ UNCHANGED <<appVars, uiState, refsVoice, refsBoth, tracks, inCtx, outCtx, node,
                   promise, conn, pcs, playback, sent, rel, tdLog, errorFired, closeFired,
                   nodeOnClosedCtx, turnLog, endedAt, pttVars>>

\* The .then callback of 414: session.sendRealtimeInput.
PttSendFrame ==
    /\ variant = "ptt"
    /\ \E i \in Ids :
         /\ promise[i] \in {"resolved", "rejected"}
         /\ reactions[i] # <<>> /\ Head(reactions[i]).k = "send"
         /\ reactions' = [reactions EXCEPT ![i] = Tail(@)]
         /\ IF promise[i] = "resolved"
            THEN sent' = Append(sent, [n |-> Head(reactions[i]).n, muted |-> FALSE,
                                       conn |-> conn[i]])
            ELSE UNCHANGED sent
    /\ UNCHANGED <<appVars, uiState, refsVoice, refsBoth, tracks, inCtx, outCtx, node,
                   promise, conn, pcs, playback, events, frameNo, rel, tdLog, errorFired,
                   closeFired, nodeOnClosedCtx, turnLog, endedAt, pttVars>>

\* onmessage with an input transcription (419-428).
PttOnMessage(i, frag) ==
    /\ variant = "ptt" /\ Idle
    /\ conn[i] = "open" /\ events < MaxEvents
    /\ events' = events + 1
    /\ liveTranscriptionRef' = liveTranscriptionRef \o frag
    /\ transcript' = SetState(transcript,
            ReplaceLast(transcript, Msg("USER", liveTranscriptionRef' \o <<"...">>)))
    /\ UNCHANGED <<appVars, status, isMuted, isGeneratingReport, refsVoice, refsBoth,
                   objects, pcs, playback, frameNo, sent, rel, tdLog, errorFired,
                   closeFired, nodeOnClosedCtx, turnLog, endedAt, pttState, audioStreamRef,
                   audioContextsRef, mediaStreamSourceRef, cleanupPerformedRef, pttPcs>>

\* onerror (436).
PttOnError(i) ==
    /\ variant = "ptt" /\ Idle
    /\ conn[i] = "open"
    /\ conn' = [conn EXCEPT ![i] = "errored"]
    /\ status' = SetState(status, "Session error.")
    /\ errorFired' = TRUE
    /\ UNCHANGED <<appVars, transcript, isMuted, isGeneratingReport, refsVoice, refsBoth,
                   tracks, inCtx, outCtx, node, promise, reactions, pcs, playback, events,
                   frameNo, sent, rel, tdLog, closeFired, nodeOnClosedCtx, turnLog,
                   endedAt, pttVars>>

\* ------------------------------------------------------------- ptt: stop
\* userMessageText || "(No speech detected)" (337), as one token.
NoSpeech == <<"(No speech detected)">>

\* A click on Stop Recording: handleStopRecording up to the end of the
\* synchronous part of cleanupLiveSession (324-328).
PttStopRecording ==
    /\ variant = "ptt" /\ Idle /\ mounted /\ ~isGeneratingReport
    /\ isRecording
    /\ hpPc[made] = "idle"
    /\ hpPc' = [hpPc EXCEPT ![made] = "cleanup"]
    /\ isRecording' = FALSE
    /\ status' = "Processing answer..."
    /\ LET c == StopCaller(made) IN ClApply(ClBegin(ClState(c), c), c)
    /\ UNCHANGED <<appVars, transcript, isMuted, isGeneratingReport, refsVoice, promise,
                   conn, pcs, playback, events, frameNo, sent, errorFired, closeFired,
                   nodeOnClosedCtx, turnLog, endedAt, isAiTyping, liveTranscriptionRef,
                   made, hsPc, scPc, currentAiText, aiSlot>>

\* handleStopRecording after `await cleanupLiveSession()` (330-350, 368-370).
PttStopAfterCleanup(j) ==
    /\ variant = "ptt"
    /\ hpPc[j] = "cleanup" /\ clPc[StopCaller(j)] = "done"
    /\ clPc' = [clPc EXCEPT ![StopCaller(j)] = "idle"]
    /\ tdLog' = [tdLog EXCEPT ![StopCaller(j)] = <<>>]
    /\ liveTranscriptionRef' = <<>>
    /\ LET userMessageText == Trim(liveTranscriptionRef)
           finalText == IF userMessageText # <<>> THEN userMessageText ELSE NoSpeech
           finalized == IF transcript # <<>> /\ transcript[Len(transcript)].speaker = "USER"
                        THEN ReplaceLast(transcript, Msg("USER", finalText))
                        ELSE transcript
       IN  IF userMessageText # <<>>
           THEN /\ isAiTyping' = SetState(isAiTyping, TRUE)
                /\ status' = SetState(status, "AI is thinking...")
                /\ transcript' = SetState(transcript, Append(finalized, Msg("AI", <<>>)))
                /\ aiSlot' = [aiSlot EXCEPT ![j] = Len(transcript')]
                /\ currentAiText' = [currentAiText EXCEPT ![j] = <<>>]
                /\ hpPc' = [hpPc EXCEPT ![j] = "streaming"]
           ELSE /\ status' = SetState(status, "Ready for your answer.")
                /\ transcript' = SetState(transcript, finalized)
                /\ hpPc' = [hpPc EXCEPT ![j] = "idle"]
                /\ UNCHANGED <<isAiTyping, aiSlot, currentAiText>>
    /\ UNCHANGED <<appVars, isMuted, isGeneratingReport, refsVoice, refsBoth, objects, pcs,
                   playback, events, frameNo, sent, rel, errorFired, closeFired,
                   nodeOnClosedCtx, turnLog, endedAt, isRecording, audioStreamRef,
                   audioContextsRef, mediaStreamSourceRef, cleanupPerformedRef, made,
                   hsPc, scPc>>

\* A chunk of the AI's reply arrives (353-360).
PttReplyChunk(j, c) ==
    /\ variant = "ptt" /\ Idle
    /\ hpPc[j] = "streaming" /\ events < MaxEvents
    /\ events' = events + 1
    /\ currentAiText' = [currentAiText EXCEPT ![j] = @ \o c]
    /\ transcript' = SetState(transcript,
                               ReplaceLast(transcript, Msg("AI", currentAiText'[j])))
    /\ UNCHANGED <<appVars, status, isMuted, isGeneratingReport, refsVoice, refsBoth,
                   objects, pcs, playback, frameNo, sent, rel, tdLog, errorFired,
                   closeFired, nodeOnClosedCtx, turnLog, endedAt, pttState, pttRefs,
                   made, hsPc, hpPc, scPc, clPc, aiSlot>>

\* The reply stream ends: the finally block (364-367).
PttReplyDone(j) ==
    /\ variant = "ptt" /\ Idle
    /\ hpPc[j] = "streaming"
    /\ hpPc' = [hpPc EXCEPT ![j] = "idle"]
    /\ aiSlot' = [aiSlot EXCEPT ![j] = 0]
    /\ currentAiText' = [currentAiText EXCEPT ![j] = <<>>]
    /\ isAiTyping' = SetState(isAiTyping, FALSE)
    /\ status' = SetState(status, "Ready for your answer.")
    /\ UNCHANGED <<appVars, transcript, isMuted, isGeneratingReport, refsVoice, refsBoth,
                   objects, pcs, playback, history, isRecording, pttRefs,
                   made, hsPc, scPc, clPc>>

\* The reply stream throws: catch, then finally (361-367).
PttReplyFailed(j) ==
    /\ variant = "ptt" /\ Idle
    /\ hpPc[j] = "streaming"
    /\ hpPc' = [hpPc EXCEPT ![j] = "idle"]
    /\ aiSlot' = [aiSlot EXCEPT ![j] = 0]
    /\ currentAiText' = [currentAiText EXCEPT ![j] = <<>>]
    /\ isAiTyping' = SetState(isAiTyping, FALSE)
    /\ status' = SetState(status, "Ready for your answer.")
    /\ UNCHANGED <<appVars, transcript, isMuted, isGeneratingReport, refsVoice, refsBoth,
                   objects, pcs, playback, history, isRecording, pttRefs,
                   made, hsPc, scPc, clPc>>

\* ------------------------------------------------------------- ptt: end
\* msg.text.trim() !== '' && msg.text.trim() !== '...' (459).
CleanTranscript(t) ==
    SelectSeq(t, LAMBDA m : Trim(m.text) # <<>> /\ Trim(m.text) # <<"...">>)

\* The transcript endInterview passes to generateFeedbackReport: the filtered
\* copy on the push-to-talk screen (459-462), the rendered transcript itself on
\* the voice screen (69).
ReportInput ==
    IF variant = "ptt" THEN CleanTranscript(eiTranscript) ELSE eiTranscript

\* A click on End Interview: endInterview up to the end of the synchronous
\* part of cleanupLiveSession (449-454).  The button is disabled while
\* recording or while the AI is typing (570).
PttEndInterview ==
    /\ variant = "ptt" /\ Idle /\ mounted /\ ~isGeneratingReport
    /\ ~isRecording /\ ~isAiTyping
    /\ eiPc \in {"idle", "failed"} /\ clPc["end"] = "idle"
    /\ eiPc' = "cleanup"
    /\ eiTranscript' = transcript
    /\ status' = "Ending session..."
    /\ isRecording' = FALSE /\ isAiTyping' = FALSE
    /\ ClApply(ClBegin(ClState("end"), "end"), "end")
    /\ UNCHANGED <<appVars, transcript, isMuted, isGeneratingReport, refsVoice, promise,
                   conn, ssPc, playback, events, frameNo, sent, errorFired, closeFired,
                   nodeOnClosedCtx, turnLog, endedAt, liveTranscriptionRef, made, hsPc,
                   hpPc, scPc, currentAiText, aiSlot>>

\* endInterview after `await cleanupLiveSession()` (456-462).
PttEndAfterCleanup ==
    /\ variant = "ptt"
    /\ eiPc = "cleanup" /\ clPc["end"] = "done"
    /\ clPc' = [clPc EXCEPT !["end"] = "idle"]
    /\ tdLog' = [tdLog EXCEPT !["end"] = <<>>]
    /\ eiPc' = "awaitReport"
    /\ status' = SetState(status, "Generating your feedback report...")
    /\ isGeneratingReport' = SetState(isGeneratingReport, TRUE)
    /\ UNCHANGED <<appVars, transcript, isMuted, refsVoice, refsBoth, objects, ssPc,
                   eiTranscript, playback, events, frameNo, sent, rel, errorFired,
                   closeFired, nodeOnClosedCtx, turnLog, endedAt, pttState, pttRefs,
                   made, hsPc, hpPc, scPc, currentAiText, aiSlot>>

\* generateFeedbackReport resolved: onInterviewEnd (463); App shows the
\* feedback screen (App.tsx 25-47).
PttReportOk ==
    /\ variant = "ptt" /\ Idle
    /\ eiPc = "awaitReport"
    /\ eiPc' = "done"
    /\ delivered' = Append(delivered, CleanTranscript(eiTranscript))
    /\ \E readOk, writeOk \in BOOLEAN :
         handleInterviewEnd(ReportInput, "report", readOk, writeOk)
    /\ UNCHANGED <<variant, mounted, isMutedAtEffect, utilVars, uiState, refsVoice, refsBoth, objects,
                   ssPc, eiTranscript, playback, history, pttVars>>

\* generateFeedbackReport rejected: the catch block (464-468).
PttReportFailed ==
    /\ variant = "ptt" /\ Idle
    /\ eiPc = "awaitReport"
    /\ eiPc' = "failed" /\ eiTranscript' = <<>>
    /\ status' = SetState(status, "Error generating report. Please try again.")
    /\ isGeneratingReport' = SetState(isGeneratingReport, FALSE)
    /\ UNCHANGED <<appVars, transcript, isMuted, refsVoice, refsBoth, objects, ssPc,
                   playback, history, pttVars>>

\* The screen is unmounted: the mount effect's cleanup calls
\* cleanupLiveSession and drops the promise (510-512).
PttUnmount ==
    /\ variant = "ptt" /\ Idle
    /\ mounted /\ appState = "FEEDBACK"
    /\ clPc["dispose"] = "idle"
    /\ mounted' = FALSE
    /\ ClApply(ClBegin(ClState("dispose"), "dispose"), "dispose")
    /\ UNCHANGED <<variant, appState, delivered, isMutedAtEffect, storeVars, utilVars,
                   uiState, refsVoice,
                   promise, conn, pcs, playback, events, frameNo, sent, errorFired,
                   closeFired, nodeOnClosedCtx, turnLog, endedAt, pttState,
                   liveTranscriptionRef, made, hsPc, hpPc, scPc, currentAiText, aiSlot>>

\* ------------------------------------------------------------- ptt: specification
Chunks == {<<c>> : c \in Chars}

\* The screen's life without what the microphone and the models deliver.
PttLifecycle ==
    \/ PttStartStreamDone
    \/ PttStartStreamFailed
    \/ PttStartRecording
    \/ \E i \in Ids : PttMicGranted(i)
    \/ \E i \in Ids : PttMicDenied(i)
    \/ \E i \in Ids : PttOnOpen(i)
    \/ \E i \in Ids : PttConnectResolved(i)
    \/ \E i \in Ids : PttConnectFailed(i)
    \/ PttStartAfterAwait
    \/ \E i \in Ids : PttOnError(i)
    \/ PttStopRecording
    \/ \E j \in Ids : PttStopAfterCleanup(j)
    \/ PttEndInterview
    \/ PttEndAfterCleanup
    \/ PttReportOk
    \/ PttReportFailed
    \/ PttUnmount
    \/ \E c \in Callers : PttCleanupInClosed(c)
    \/ \E c \in Callers : PttCleanupOutClosed(c)
    \/ PttCleanupAfterAwait

NextPtt == PttLifecycle

SpecPtt == InitPtt /\ [][NextPtt]_vars

\* The conversation: recordings and the text the models deliver.
NextPttText ==
    \/ \E c \in Chunks : PttStartChunk(c)
    \/ PttStartStreamDone
    \/ PttStartStreamFailed
    \/ PttStartRecording
    \/ \E i \in Ids : PttMicGranted(i)
    \/ \E i \in Ids : PttMicDenied(i)
    \/ \E i \in Ids : PttOnOpen(i)
    \/ \E i \in Ids : PttConnectResolved(i)
    \/ \E i \in Ids : PttConnectFailed(i)
    \/ PttStartAfterAwait
    \/ \E i \in Ids, c \in Chunks : PttOnMessage(i, c)
    \/ PttStopRecording
    \/ \E j \in Ids : PttStopAfterCleanup(j)
    \/ \E j \in Ids, c \in Chunks : PttReplyChunk(j, c)
    \/ \E j \in Ids : PttReplyDone(j)
    \/ \E j \in Ids : PttReplyFailed(j)
    \/ \E c \in Callers : PttCleanupInClosed(c)
    \/ \E c \in Callers : PttCleanupOutClosed(c)
    \/ PttCleanupAfterAwait

SpecPttText == InitPtt /\ [][NextPttText]_vars

\* The first click on Record Answer.
PttFirstRecording == made = 0 /\ PttStartRecording

\* Ending the interview after a conversation: one recording, its transcription
\* and the reply on the push-to-talk screen, then End Interview and the report.
NextPttReport ==
    \/ \E c \in Chunks : PttStartChunk(c)
    \/ PttStartStreamDone
    \/ PttFirstRecording
    \/ \E i \in Ids : PttMicGranted(i)
    \/ \E i \in Ids : PttOnOpen(i)
    \/ \E i \in Ids : PttConnectResolved(i)
    \/ PttStartAfterAwait
    \/ \E i \in Ids, c \in Chunks : PttOnMessage(i, c)
    \/ PttStopRecording
    \/ \E j \in Ids : PttStopAfterCleanup(j)
    \/ \E j \in Ids, c \in Chunks : PttReplyChunk(j, c)
    \/ \E j \in Ids : PttReplyDone(j)
    \/ PttEndInterview
    \/ PttEndAfterCleanup
    \/ PttReportOk
    \/ PttReportFailed
    \/ \E c \in Callers : PttCleanupInClosed(c)
    \/ \E c \in Callers : PttCleanupOutClosed(c)
    \/ PttCleanupAfterAwait

\* Starting to listen: the microphone request, the handshake, the frames and
\* Stop Recording on the push-to-talk screen.
NextPttMic ==
    \/ PttStartStreamDone
    \/ PttStartRecording
    \/ \E i \in Ids : PttMicGranted(i)
    \/ \E i \in Ids : PttMicDenied(i)
    \/ \E i \in Ids : PttOnOpen(i)
    \/ \E i \in Ids : PttConnectResolved(i)
    \/ PttStartAfterAwait
    \/ \E i \in Ids : PttAudioProcess(i)
    \/ PttSendFrame
    \/ PttStopRecording
    \/ \E j \in Ids : PttStopAfterCleanup(j)
    \/ \E c \in Callers : PttCleanupInClosed(c)
    \/ \E c \in Callers : PttCleanupOutClosed(c)
    \/ PttCleanupAfterAwait

\* Attempts and their failures: one recording on the push-to-talk screen with
\* every way the microphone, the connection, the reply and the report can fail.
NextPttAttempts ==
    \/ PttStartStreamDone
    \/ PttStartStreamFailed
    \/ PttFirstRecording
    \/ \E i \in Ids : PttMicGranted(i)
    \/ \E i \in Ids : PttMicDenied(i)
    \/ \E i \in Ids : PttOnOpen(i)
    \/ \E i \in Ids : PttConnectResolved(i)
    \/ \E i \in Ids : PttConnectFailed(i)
    \/ PttStartAfterAwait
    \/ \E i \in Ids, c \in Chunks : PttOnMessage(i, c)
    \/ \E i \in Ids : PttOnError(i)
    \/ PttStopRecording
    \/ \E j \in Ids : PttStopAfterCleanup(j)
    \/ \E j \in Ids : PttReplyDone(j)
    \/ \E j \in Ids : PttReplyFailed(j)
    \/ PttEndInterview
    \/ PttEndAfterCleanup
    \/ PttReportOk
    \/ PttReportFailed
    \/ \E c \in Callers : PttCleanupInClosed(c)
    \/ \E c \in Callers : PttCleanupOutClosed(c)
    \/ PttCleanupAfterAwait

InitAttempts == InitVoice \/ InitPtt

NextAttempts == VoiceLifecycle \/ NextPttAttempts

SpecAttempts == InitAttempts /\ [][NextAttempts]_vars

\* Both screens, from the microphone request on.
InitMic == InitVoice \/ InitPtt

NextMic == NextVoice \/ NextPttMic

SpecMic == InitMic /\ [][NextMic]_vars

\* Both screens, from a conversation to the report.
InitReport == InitVoice \/ InitPtt

NextReport == NextVoiceText \/ NextPttReport

SpecReport == InitReport /\ [][NextReport]_vars

\* Capture: the lifecycle with the frames the microphone delivers.
NextPttCapture ==
    \/ PttLifecycle
    \/ \E i \in Ids : PttAudioProcess(i)
    \/ PttSendFrame

SpecPttCapture == InitPtt /\ [][NextPttCapture]_vars

\* ------------------------------------------------------------- teardown, both screens
InitTeardown == InitVoice \/ InitPtt

NextTeardown == NextVoiceAudio \/ NextPtt

SpecTeardown == InitTeardown /\ [][NextTeardown]_vars

\* ============================================================= App.tsx
\* No interview screen is mounted: the state of the screen's variables while
\* the setup or the feedback screen is shown, or while a utility is followed.
InitNoScreen ==
    /\ variant = "none"
    /\ mounted = FALSE
    /\ status = ""
    /\ transcript = <<>>
    /\ ssPc = "none"
    /\ isAiTyping = FALSE
    /\ scPc = "none"
    /\ InitCommon

\* The records an earlier run left in the store, newest first.
OldRecords(k) == [i \in 1..k |-> HistoricalInterview(1 - i, <<>>, "old")]

InitialStores ==
    {Stored(j, <<>>) : j \in {"missing", "empty", "invalid", "object"}}
        \cup {Stringify(OldRecords(k)) : k \in 0..HistoryLimit}

FinalTranscripts == {<<>>, <<Msg("AI", <<"a">>), Msg("USER", <<"a">>)>>}
Reports == {"report1", "report2"}

\* history.length > 0 && history.map(...) (SetupScreen 722-726): the records
\* the setup screen lists.
ShownHistory == IF setupHistory.isArray THEN setupHistory.items ELSE <<>>

\* The application starts on the setup screen (App.tsx:10), whose mount
\* effect has read the store.
InitHistory ==
    /\ InitNoScreen /\ InitUtilIdle
    /\ appState = "SETUP" /\ interviewConfig = "null"
    /\ appTranscript = <<>> /\ feedbackReport = "null"
    /\ interviewHistory \in InitialStores
    /\ \E readOk \in BOOLEAN : setupHistory = LoadedHistory(interviewHistory, readOk)
    /\ now = 0 /\ endCall = NoCall

ScreenVars == <<variant, mounted, delivered, isMutedAtEffect, utilVars, uiState, refsVoice,
                refsBoth, objects, pcs, playback, history, pttVars>>

\* handleStartInterview (App.tsx:17-23).
AppStartInterview ==
    /\ appState = "SETUP" /\ now < MaxInterviews
    /\ interviewConfig' = "config"
    /\ appState' = "INTERVIEW"
    /\ feedbackReport' = "null"
    /\ appTranscript' = <<>>
    /\ UNCHANGED <<interviewHistory, setupHistory, now, endCall, ScreenVars>>

\* The interview screen calls onInterviewEnd (App.tsx:72).
AppInterviewEnd(finalTranscript, report, readOk, writeOk) ==
    /\ appState = "INTERVIEW"
    /\ handleInterviewEnd(finalTranscript, report, readOk, writeOk)
    /\ UNCHANGED ScreenVars

\* handlePracticeAgain (App.tsx:49-55); the setup screen mounts and its
\* effect reads the store (SetupScreen 600-608).
AppPracticeAgain ==
    /\ appState = "FEEDBACK"
    /\ interviewConfig' = "null"
    /\ feedbackReport' = "null"
    /\ appTranscript' = <<>>
    /\ appState' = "SETUP"
    /\ \E readOk \in BOOLEAN : setupHistory' = LoadedHistory(interviewHistory, readOk)
    /\ UNCHANGED <<interviewHistory, now, endCall, ScreenVars>>

\* handleViewHistory (App.tsx:57-63) for the k-th listed record.
AppViewHistory(k) ==
    /\ appState = "SETUP"
    /\ k \in 1..Len(ShownHistory)
    /\ interviewConfig' = "config"
    /\ feedbackReport' = ShownHistory[k].report
    /\ appTranscript' = ShownHistory[k].transcript
    /\ appState' = "FEEDBACK"
    /\ UNCHANGED <<interviewHistory, setupHistory, now, endCall, ScreenVars>>

NextHistory ==
    \/ AppStartInterview
    \/ \E t \in FinalTranscripts, r \in Reports, readOk, writeOk \in BOOLEAN :
          AppInterviewEnd(t, r, readOk, writeOk)
    \/ AppPracticeAgain
    \/ \E k \in 1..HistoryLimit : AppViewHistory(k)

SpecHistory == InitHistory /\ [][NextHistory]_vars

\* ============================================================= audioUtils.ts
\* All sequences over S of length at most n.
SeqsUpTo(S, n) == UNION {[1..k -> S] : k \in 0..n}

\* The base64 alphabet of btoa / atob.
Alphabet ==
    <<"A", "B", "C", "D", "E", "F", "G", "H", "I", "J", "K", "L", "M",
      "N", "O", "P", "Q", "R", "S", "T", "U", "V", "W", "X", "Y", "Z",
      "a", "b", "c", "d", "e", "f", "g", "h", "i", "j", "k", "l", "m",
      "n", "o", "p", "q", "r", "s", "t", "u", "v", "w", "x", "y", "z",
      "0", "1", "2", "3", "4", "5", "6", "7", "8", "9", "+", "/">>

Digit(ch) == CHOOSE k \in 0..63 : Alphabet[k + 1] = ch

\* btoa: a binary string (its code units, each 0..255) to base64 text, three
\* code units to four characters, "=" padding for a final group of one or two.
RECURSIVE btoa(_)
btoa(binary) ==
    IF binary = <<>> THEN <<>>
    ELSE LET b1 == binary[1]
             b2 == IF Len(binary) >= 2 THEN binary[2] ELSE 0
             b3 == IF Len(binary) >= 3 THEN binary[3] ELSE 0
             c1 == Alphabet[(b1 \div 4) + 1]
             c2 == Alphabet[(b1 % 4) * 16 + (b2 \div 16) + 1]
             c3 == Alphabet[(b2 % 16) * 4 + (b3 \div 64) + 1]
             c4 == Alphabet[(b3 % 64) + 1]
         IN  IF Len(binary) = 1 THEN <<c1, c2, "=", "=">>
             ELSE IF Len(binary) = 2 THEN <<c1, c2, c3, "=">>
             ELSE <<c1, c2, c3, c4>> \o btoa(SubSeq(binary, 4, Len(binary)))

\* atob on padded base64 text: four characters to three code units, fewer for
\* a padded final group.
RECURSIVE atob(_)
atob(text) ==
    IF Len(text) < 4 THEN <<>>
    ELSE LET d1 == Digit(text[1])
             d2 == Digit(text[2])
             u1 == d1 * 4 + (d2 \div 16)
             rest == SubSeq(text, 5, Len(text))
         IN  IF text[3] = "=" THEN <<u1>>
             ELSE LET d3 == Digit(text[3])
                      u2 == (d2 % 16) * 16 + (d3 \div 4)
                  IN  IF text[4] = "=" THEN <<u1, u2>>
                      ELSE <<u1, u2, (d3 % 4) * 64 + Digit(text[4])>> \o atob(rest)

\* encode (24-31): String.fromCharCode of each byte, then btoa.
encode(bytes) == btoa([i \in 1..Len(bytes) |-> bytes[i]])

\* A decode that keeps only seven bits of each code unit.
decodeSevenBit(base64) ==
    LET binaryString == atob(base64)
    IN  [i \in 1..Len(binaryString) |-> binaryString[i] % 128]

\* decode (9-17): atob, then charCodeAt of each position into a Uint8Array.
decode(base64) ==
    LET binaryString == atob(base64)
    IN  [i \in 1..Len(binaryString) |-> binaryString[i] % 256]

\* A byte sequence is about to be encoded.
InitBase64 ==
    /\ InitNoScreen
    /\ appState = "SETUP" /\ interviewConfig = "null"
    /\ appTranscript = <<>> /\ feedbackReport = "null"
    /\ interviewHistory = Stored("missing", <<>>)
    /\ setupHistory = [isArray |-> TRUE, items |-> <<>>]
    /\ now = 0 /\ endCall = NoCall
    /\ data \in SeqsUpTo(ByteValues, MaxBytes)
    /\ numChannels = 1
    /\ encoded = <<>> /\ decoded = <<>>
    /\ buffer = NoBuffer
    /\ utilPc = "input"

\* encode(data).
UtilEncode ==
    /\ utilPc = "input"
    /\ encoded' = encode(data)
    /\ utilPc' = "encoded"
    /\ UNCHANGED <<variant, mounted, appState, delivered, isMutedAtEffect, storeVars,
                   data, numChannels, decoded, buffer,
                   uiState, refsVoice, refsBoth, objects, pcs, playback, history, pttVars>>

\* decode(encoded).
UtilDecode ==
    /\ utilPc = "encoded"
    /\ decoded' = decode(encoded)
    /\ utilPc' = "decoded"
    /\ UNCHANGED <<variant, mounted, appState, delivered, isMutedAtEffect, storeVars,
                   data, numChannels, encoded, buffer,
                   uiState, refsVoice, refsBoth, objects, pcs, playback, history, pttVars>>

NextBase64 == UtilEncode \/ UtilDecode

SpecBase64 == InitBase64 /\ [][NextBase64]_vars

\* ------------------------------------------------------------- decodeAudioData
\* One element of an Int16Array over little-endian bytes.
Int16(lo, hi) ==
    LET u == lo + 256 * hi IN IF u >= 32768 THEN u - 65536 ELSE u

\* new Int16Array(data.buffer) (48), for a buffer of even byte length.
Int16Array(bytes) ==
    [k \in 1..(Len(bytes) \div 2) |-> Int16(bytes[2 * k - 1], bytes[2 * k])]

\* dataInt16[...] / 32768.0 (56), kept as the exact quotient.
Sample(v) == [num |-> v, den |-> 32768]

\* decodeAudioData (42-60).  The Int16Array constructor throws RangeError on
\* a buffer of odd byte length.  frameCount (49) is a quotient that need not
\* be whole; createBuffer converts it to an unsigned long by truncation and
\* throws NotSupportedError when the result is zero.  The loops (52-58) run
\* while i < frameCount: reading past the end of dataInt16 yields undefined,
\* and a write past the end of channelData is dropped; both are recorded in
\* outOfRange, by kind and zero-based index.
decodeAudioData(bytes, n) ==
    IF Len(bytes) % 2 # 0
    THEN [error |-> "RangeError", channels |-> <<>>, outOfRange |-> {}]
    ELSE LET dataInt16 == Int16Array(bytes)
             total == Len(dataInt16)
             length == total \div n
             iterations == {i \in 0..total : i * n < total}
         IN  IF length = 0
             THEN [error |-> "NotSupportedError", channels |-> <<>>, outOfRange |-> {}]
             ELSE [error |-> "none",
                   channels |->
                       [c \in 1..n |->
                           [i \in 1..length |-> Sample(dataInt16[(i - 1) * n + c])]],
                   outOfRange |->
                       {<<"read", i * n + c>> :
                            <<i, c>> \in {ic \in iterations \X (0..(n - 1)) :
                                             ic[1] * n + ic[2] >= total}}
                       \cup {<<"write", i>> : i \in {j \in iterations : j >= length}}]

\* A byte buffer is about to be decoded as PCM.
InitPcm ==
    /\ InitNoScreen
    /\ appState = "SETUP" /\ interviewConfig = "null"
    /\ appTranscript = <<>> /\ feedbackReport = "null"
    /\ interviewHistory = Stored("missing", <<>>)
    /\ setupHistory = [isArray |-> TRUE, items |-> <<>>]
    /\ now = 0 /\ endCall = NoCall
    /\ data \in SeqsUpTo(PcmBytes, 2 * MaxSamples)
    /\ numChannels \in 1..MaxChannels
    /\ encoded = <<>> /\ decoded = <<>>
    /\ buffer = NoBuffer
    /\ utilPc = "input"

\* decodeAudioData(data, ctx, sampleRate, numChannels).
UtilDecodeAudioData ==
    /\ utilPc = "input"
    /\ buffer' = decodeAudioData(data, numChannels)
    /\ utilPc' = "pcm"
    /\ UNCHANGED <<variant, mounted, appState, delivered, isMutedAtEffect, storeVars,
                   data, numChannels, encoded, decoded,
                   uiState, refsVoice, refsBoth, objects, pcs, playback, history, pttVars>>

NextPcm == UtilDecodeAudioData

SpecPcm == InitPcm /\ [][NextPcm]_vars

\* ------------------------------------------------------------- capture frames
\* Float samples of a capture buffer, in eighths from -1 to 1, as exact
\* quotients.
FloatSamples == {[num |-> k, den |-> 8] : k \in -8..8}

\* Truncation toward zero of n / d, d > 0.
Trunc(n, d) == IF n >= 0 THEN n \div d ELSE -((-n) \div d)

\* The conversion an Int16Array applies to a number it stores: truncate, then
\* reduce modulo 2^16 into -32768..32767.
ToInt16(v) ==
    LET u == v % 65536 IN IF u >= 32768 THEN u - 65536 ELSE u

\* new Uint8Array(int16Array.buffer): two little-endian bytes per element.
Uint8Array(int16s) ==
    [b \in 1..(2 * Len(int16s)) |->
        LET u == int16s[(b + 1) \div 2] % 65536
        IN  IF b % 2 = 1 THEN u % 256 ELSE u \div 256]

\* pcmBlob.data (110, 411): encode(new Uint8Array(new Int16Array(
\* inputData.map(x => x * 32768)).buffer)).
pcmBlob(inputData) ==
    LET scaled == [k \in 1..Len(inputData) |->
                      [num |-> inputData[k].num * 32768, den |-> inputData[k].den]]
        int16s == [k \in 1..Len(scaled) |-> ToInt16(Trunc(scaled[k].num, scaled[k].den))]
    IN  encode(Uint8Array(int16s))

\* A capture buffer is about to be converted.
InitCapture ==
    /\ InitNoScreen
    /\ appState = "SETUP" /\ interviewConfig = "null"
    /\ appTranscript = <<>> /\ feedbackReport = "null"
    /\ interviewHistory = Stored("missing", <<>>)
    /\ setupHistory = [isArray |-> TRUE, items |-> <<>>]
    /\ now = 0 /\ endCall = NoCall
    /\ data \in SeqsUpTo(FloatSamples, MaxFrame)
    /\ numChannels = 1
    /\ encoded = <<>> /\ decoded = <<>>
    /\ buffer = NoBuffer
    /\ utilPc = "input"

\* onaudioprocess builds the blob it sends (108-112, 409-413).
UtilPcmBlob ==
    /\ utilPc = "input"
    /\ encoded' = pcmBlob(data)
    /\ utilPc' = "encoded"
    /\ UNCHANGED <<variant, mounted, appState, delivered, isMutedAtEffect, storeVars,
                   data, numChannels, decoded, buffer,
                   uiState, refsVoice, refsBoth, objects, pcs, playback, history, pttVars>>

NextCapture == UtilPcmBlob

SpecCapture == InitCapture /\ [][NextCapture]_vars

\* ============================================================= claims

\* C1: teardown idempotence - end() twice, or end() followed by the unmount
\* disposal, performs each resource release (stop tracks, disconnect node,
\* close input context, close output context, close connection) exactly once.
C1_ReleaseAtMostOnce ==
    \A i \in Ids : \A what \in DOMAIN NoRel : rel[i][what] <= 1

\* C2: the guard flag makes a teardown call that begins while another is
\* suspended at an await a no-op, so in every interleaving no audio context
\* and no remote session has its close operation invoked twice.
C2_NoDoubleClose ==
    \A i \in Ids : rel[i].inCtx <= 1 /\ rel[i].outCtx <= 1 /\ rel[i].session <= 1

\* C3: every teardown run issues its release steps in dependency order:
\* tracks, processing node, input context, playback clips, output context,
\* connection.  No step is issued after a step that comes later in that order.
Rank(step) ==
    CASE step = "tracks" -> 1
      [] step \in {"node", "source"} -> 2
      [] step = "inCtx" -> 3
      [] step = "clips" -> 4
      [] step = "outCtx" -> 5
      [] step = "session" -> 6

Ordered(log) ==
    \A a, b \in 1..Len(log) : a < b => Rank(log[a]) <= Rank(log[b])

NonFinal ==
    {k \in 1..Len(transcript) :
        \/ /\ transcript[k].speaker = "USER"
           /\ transcript[k].text # <<>>
           /\ transcript[k].text[Len(transcript[k].text)] = "..."
        \/ \E e \in Exchanges : k = aiSlot[e]}

C4_TranscriptInvariant ==
    /\ Cardinality(NonFinal) <= 1
    /\ \A k \in NonFinal : k = Len(transcript)

\* C5: at a turn-complete signal each speaker's finalized message is the
\* trimmed concatenation, in arrival order, of the fragments received for that
\* speaker since the previous turn-complete; an empty or all-whitespace
\* accumulation appends no message.
Finalized(who, frags) ==
    IF Trim(Flatten(frags)) = <<>> THEN <<>> ELSE <<Msg(who, Trim(Flatten(frags)))>>

C5_TurnComplete ==
    turnLog.done =>
        transcript = turnLog.before \o Finalized("USER", turnLog.USER)
                                    \o Finalized("AI", turnLog.AI)

C5_Witness ==
    /\ turnLog.done
    /\ turnLog.USER = << <<" ">>, <<"a">> >>
    /\ transcript = turnLog.before \o <<Msg("USER", <<"a">>)>>

\* C6: no capture frame produced while the session is muted is sent to the
\* connection.
C6_MutedFramesNotSent == \A k \in 1..Len(sent) : ~sent[k].muted

\* C7: a clip starts at max(currentOutputTime, cursor), and the next clip
\* starts no earlier than that start plus the clip's duration, also when the
\* next payload arrives while the clip is still being decoded.
C7_PlaybackSchedule ==
    /\ \A k \in 1..Len(clips) :
         /\ clips[k].start >= Max(clips[k].recv, clips[k].cursor)
         /\ clips[k].solo => clips[k].start = Max(clips[k].recv, clips[k].cursor)
    /\ \A k \in 1..(Len(clips) - 1) :
         clips[k + 1].start >= clips[k].start + clips[k].dur

C7_Witness ==
    /\ Len(clips) >= 2
    /\ ~clips[1].solo
    /\ clips[1].start = 1
    /\ clips[2].start = clips[1].start + clips[1].dur

\* C8: end() invoked after the microphone was granted and before the handshake
\* completed: once end() and the handshake callbacks have run, no track is
\* live, no processing node is connected, both contexts and the session are
\* closed, and no capture node was created on a closed context.
C8_EndMidConnecting ==
    (/\ endedAt = "connecting"
     /\ eiPc # "awaitSession"
     /\ conn[1] \notin {"connecting", "onopen"})
    => /\ tracks[1] # "live"
       /\ node[1] # "connected"
       /\ inCtx[1] = "closed" /\ outCtx[1] = "closed"
       /\ conn[1] \in {"closed", "failed"}
       /\ ~nodeOnClosedCtx

\* C9: once the connection's error callback has fired the session is
\* terminated: the capture resources are released and no captured frame is
\* forwarded any more.
C9_ErrorEndsSession ==
    errorFired =>
        /\ \A i \in Ids : tracks[i] # "live" /\ node[i] # "connected"
        /\ \A k \in 1..Len(sent) : sent[k].conn # "errored"

\* C10: after a failed report generation the transcript is intact and the end
\* control is reachable again (the screen is not left in the generating-report
\* state).
C10_ReportFailureRetryable ==
    eiPc = "failed" =>
        /\ Len(transcript) >= Len(eiTranscript)
        /\ SubSeq(transcript, 1, Len(eiTranscript)) = eiTranscript
        /\ mounted /\ ~isGeneratingReport

\* C11: at most one live session at any time: never two live capture streams,
\* never two connections that are connecting or open, and every live stream
\* and every such connection is the one the screen's handle refers to (no
\* handle of a session still open has been overwritten or dropped).
LiveStreams == {i \in Ids : tracks[i] = "live"}

LiveConns == {i \in Ids : conn[i] \in {"connecting", "onopen", "open"}}

C11_SingleLiveSession ==
    /\ Cardinality(LiveStreams) <= 1
    /\ Cardinality(LiveConns) <= 1
    /\ \A i \in LiveStreams : i \in {streamRef, audioStreamRef}

\* C12: push-to-talk resources live for one utterance: whenever no recording
\* is in progress (no start, stop or teardown call is running and the
\* recording flag is clear) the screen holds no capture stream, no audio
\* contexts and no connection handle, and none of their objects is still live.
NoRecordingInProgress ==
    /\ variant = "ptt"
    /\ ~isRecording
    /\ \A j \in Ids : hpPc[j] # "cleanup"
    /\ \A i \in Ids : hsPc[i] \notin {"awaitMic", "connecting"}
    /\ \A c \in Callers : clPc[c] = "idle"

C12_NothingHeldBetweenUtterances ==
    NoRecordingInProgress =>
        /\ audioStreamRef = 0 /\ audioContextsRef = 0 /\ sessionPromiseRef = 0
        /\ \A i \in Ids : /\ tracks[i] # "live"
                           /\ inCtx[i] # "running" /\ outCtx[i] # "running"

\* C13: single outstanding text exchange: at most one sendMessageStream call is
\* in flight at any time, and while a reply is outstanding no step starts a
\* new recording or another exchange.
InFlight ==
    {e \in Exchanges : \/ e = 0 /\ scPc = "streaming"
                       \/ e \in Ids /\ hpPc[e] = "streaming"}

C13_SingleExchange ==
    [][InFlight # {} => made' = made /\ InFlight' \subseteq InFlight]_vars

\* C14: whenever endInterview calls the report generator, the transcript it
\* passes holds no message whose text is empty, all whitespace or an
\* in-progress placeholder (a text still ending in "...").
InProgress(m) ==
    \/ Trim(m.text) = <<>>
    \/ m.text[Len(m.text)] = "..."

C14_ReportInputFinal ==
    eiPc = "awaitReport" =>
        \A k \in 1..Len(ReportInput) : ~InProgress(ReportInput[k])

\* C15: a microphone request that is denied is terminal for the attempt: no
\* connection is opened for it, no capture node exists and no frame is ever
\* forwarded, the recording flag is not left set, and the status shows the
\* instruction to check the permissions.
NothingOpened(i) ==
    /\ tracks[i] = "none" /\ inCtx[i] = "none" /\ outCtx[i] = "none"
    /\ node[i] = "none" /\ promise[i] = "none" /\ conn[i] = "none"
    /\ reactions[i] = <<>>

DeniedVoice == variant = "voice" /\ ssPc = "failed"

DeniedPtt(i) == variant = "ptt" /\ hsPc[i] = "done" /\ tracks[i] = "none"

MicFailureTerminal ==
    /\ DeniedVoice =>
          /\ NothingOpened(1) /\ sent = <<>> /\ streamRef = 0 /\ sessionPromiseRef = 0
          /\ eiPc = "idle" =>
                status = "Failed to access microphone. Please check permissions and refresh."
    /\ \A i \in Ids : DeniedPtt(i) => NothingOpened(i)

DenialShown ==
    \A i \in Ids :
        hsPc[i] = "awaitMic" /\ hsPc'[i] = "done" /\ mounted =>
            status' = "Mic error. Check permissions." /\ ~isRecording'

C15_MicFailureTerminal == []MicFailureTerminal /\ [][DenialShown]_vars

C15_Witness ==
    /\ \E i \in Ids : DeniedPtt(i)
    /\ status = "Mic error. Check permissions."
    /\ \E i \in Ids : conn[i] = "open"

\* C16: base64 round trip: for every byte sequence b, the empty one and
\* lengths not divisible by 3 included, decode(encode(b)) equals b byte for byte.
C16_Base64RoundTrip ==
    utilPc = "decoded" => decoded = data

C16_Witness ==
    /\ utilPc = "decoded"
    /\ Len(data) % 3 = 1
    /\ \E i \in 1..Len(data) : data[i] = 255
    /\ encoded[Len(encoded)] = "="

\* C17: PCM decoding: for every 16-bit PCM buffer and channel count n >= 1 the
\* decoded buffer has floor(totalSamples / n) frames, sample i of channel c is
\* int16[i*n + c] / 32768, and a trailing incomplete frame gives no output
\* frame, no error and no out-of-range read or write.
C17_PcmDecoding ==
    utilPc = "pcm" /\ Len(data) % 2 = 0 =>
        LET int16 == Int16Array(data)
            frames == Len(int16) \div numChannels
        IN  /\ buffer.error = "none"
            /\ Len(buffer.channels) = numChannels
            /\ \A c \in 1..numChannels :
                  /\ Len(buffer.channels[c]) = frames
                  /\ \A i \in 1..frames :
                        buffer.channels[c][i] = Sample(int16[(i - 1) * numChannels + c])
            /\ buffer.outOfRange = {}

\* C18: history bound: the persisted history holds at most 10 records, newest
\* first; a record inserted when 10 are stored becomes the first, the nine
\* most recent of the old ones follow it and the oldest is removed.
StoredRecords == Parse(interviewHistory).items

HistoryBounded ==
    /\ Len(StoredRecords) <= HistoryLimit
    /\ \A i \in 1..(Len(StoredRecords) - 1) : StoredRecords[i].id > StoredRecords[i + 1].id

RecordInserted ==
    interviewHistory' # interviewHistory =>
        LET old == StoredRecords
            new == Parse(interviewHistory').items
        IN  /\ new # <<>>
            /\ new[1] = HistoricalInterview(endCall'.n, endCall'.transcript, endCall'.report)
            /\ Len(new) = (IF Len(old) < HistoryLimit THEN Len(old) + 1 ELSE HistoryLimit)
            /\ \A i \in 2..Len(new) : new[i] = old[i - 1]

C18_HistoryBound == []HistoryBounded /\ [][RecordInserted]_vars

C18_Witness ==
    /\ now = 2
    /\ Len(StoredRecords) = HistoryLimit
    /\ StoredRecords[1].id = 2
    /\ StoredRecords[HistoryLimit].id = 2 - HistoryLimit + 1

\* C19: a stored value that is missing, unparseable or not a list is treated
\* as an empty list: the setup screen shows no history, and a completed
\* interview saved on top of it leaves exactly the new record stored.
Unusable(stored) == stored.json \in {"missing", "empty", "invalid", "object"}

ReadsAsEmpty ==
    appState = "SETUP" /\ Unusable(interviewHistory) => ShownHistory = <<>>

SavedOnTop ==
    /\ endCall'.n # endCall.n
    /\ endCall'.readOk /\ endCall'.writeOk
    /\ Unusable(interviewHistory)
    => interviewHistory' =
           Stringify(<<HistoricalInterview(endCall'.n, endCall'.transcript,
                                           endCall'.report)>>)

C19_CorruptHistoryTolerated == []ReadsAsEmpty /\ [][SavedOnTop]_vars

\* C20: persistence errors never block the main flow: whenever the interview
\* screen delivers a transcript and a report, the application is in FEEDBACK
\* after the call, holding exactly that transcript and report, whether the
\* storage read and write worked or failed.
FeedbackReached ==
    endCall'.n # endCall.n =>
        /\ appState' = "FEEDBACK"
        /\ appTranscript' = endCall'.transcript
        /\ feedbackReport' = endCall'.report

C20_PersistenceNeverBlocks == [][FeedbackReached]_vars

C20_Witness ==
    /\ endCall.n > 0 /\ ~endCall.writeOk
    /\ endCall.transcript # <<>>
    /\ appState = "FEEDBACK"
    /\ appTranscript = endCall.transcript /\ feedbackReport = endCall.report
    /\ interviewHistory.json = "invalid"

\* C21: finalized messages are frozen: once a message is final (it is neither
\* a USER placeholder ending in "..." nor the AI message of an exchange still
\* streaming), no later step changes its speaker or text or removes it.
FinalizedFrozen ==
    \A k \in 1..Len(transcript) :
        k \notin NonFinal => /\ k <= Len(transcript')
                             /\ transcript'[k] = transcript[k]

C21_FinalizedFrozen == [][FinalizedFrozen]_vars

\* C22: outbound frames are forwarded in capture order: of any two captured
\* frames that are both forwarded, the one captured first is sent first,
\* frames captured while the connection promise is pending included.
C22_FramesInCaptureOrder ==
    \A a, b \in 1..Len(sent) : a < b => sent[a].n < sent[b].n

\* C23: the mute button only toggles the muted flag: a step that changes it
\* leaves the connection, its promise, the capture stream, contexts and node,
\* the refs, the transcript and the playback cursor as they were, and neither
\* closes nor reopens the session.
MuteOnlyTogglesFlag ==
    isMuted' # isMuted =>
        UNCHANGED <<conn, promise, reactions, tracks, inCtx, outCtx, node, refsVoice,
                    refsBoth, transcript, status, clips, pendingDecodes, rel, closeFired,
                    isMutedAtEffect, ssPc, eiPc>>

C23_MuteOnlyTogglesFlag == [][MuteOnlyTogglesFlag]_vars

C23_Witness ==
    /\ isMuted
    /\ conn[1] = "open" /\ tracks[1] = "live" /\ node[1] = "connected"
    /\ sent # <<>>

\* C24: no automatic retries: a connection is opened, a text exchange is
\* called and the report generator is called only by the handler of a pending
\* user request, which the call uses up; such a request comes into being only
\* in a step that is a click (the screen's mount being the first), and a
\* connection that failed or closed is never opened again.
Click ==
    \/ PttStartRecording \/ PttStopRecording \/ PttEndInterview
    \/ VoiceEndInterview

ConnectCalled(i) == conn[i] # "connecting" /\ conn'[i] = "connecting"

ExchangeCalled(j) == hpPc[j] # "streaming" /\ hpPc'[j] = "streaming"

ReportCalled == eiPc # "awaitReport" /\ eiPc' = "awaitReport"

NoAutomaticAttempt ==
    /\ \A i \in Ids :
         /\ ConnectCalled(i) =>
              /\ conn[i] = "none"
              /\ IF variant = "ptt"
                 THEN hsPc[i] = "awaitMic" /\ hsPc'[i] # "awaitMic"
                 ELSE i = 1 /\ ssPc = "awaitMic" /\ ssPc' # "awaitMic"
         /\ hsPc[i] # "awaitMic" /\ hsPc'[i] = "awaitMic" => Click
         /\ ExchangeCalled(i) => hpPc[i] = "cleanup"
         /\ hpPc[i] # "cleanup" /\ hpPc'[i] = "cleanup" => Click
    /\ ssPc # "awaitMic" => ssPc' # "awaitMic"
    /\ scPc # "streaming" => scPc' # "streaming"
    /\ ReportCalled => Click \/ eiPc \in {"cleanup", "awaitSession"}
    /\ eiPc \notin {"cleanup", "awaitSession"} /\ eiPc' \in {"cleanup", "awaitSession"}
         => Click

C24_NoAutomaticRetry == [][NoAutomaticAttempt]_vars

\* The connection of the recording failed, and after a click on End
\* Interview the report generator has been called.
C24_Witness ==
    /\ variant = "ptt"
    /\ conn[1] \in {"failed", "errored"}
    /\ eiPc = "awaitReport"
    /\ status = "Generating your feedback report..."
    /\ errorFired

\* C25: the fragments of a reply are applied in emission order: while a text
\* exchange is in flight and has delivered fragments, the last transcript
\* element is the AI message whose text is the concatenation of the fragments
\* delivered so far.
C25_FragmentsInOrder ==
    \A e \in InFlight :
        currentAiText[e] # <<>> =>
            /\ transcript # <<>>
            /\ transcript[Len(transcript)] = Msg("AI", currentAiText[e])

\* C26: endInterview calls the report generator only after teardown: in the
\* step that makes the call no connection is still connecting or open (each
\* was closed, failed, or never existed).
TeardownPerformed ==
    \A i \in Ids : conn[i] \in {"none", "closed", "failed"}

C26_ReportAfterTeardown == [][ReportCalled => TeardownPerformed']_vars

\* C27: playback scheduling never reorders clips: of two audio payloads, the
\* clip of the one received first is scheduled first and starts no later than
\* the clip of the other, whatever the number of decodes pending at a time.
C27_ClipsInArrivalOrder ==
    \A a, b \in 1..Len(clips) :
        clips[a].n < clips[b].n => a < b /\ clips[a].start <= clips[b].start

\* Two payloads were received while the first was still being decoded, and
\* both clips are scheduled.
C27_Witness ==
    /\ Len(clips) >= 2
    /\ clips[2].recv = clips[1].recv
    /\ ~clips[1].solo /\ ~clips[2].solo
    /\ clips[1].start < clips[2].start

\* C28: every clip that was started and has not ended is in the tracked set;
\* once a teardown (endInterview, or the unmount cleanup) has completed, every
\* tracked clip has been stopped, and no step schedules another clip.
TeardownCompleted ==
    \/ eiPc \in {"awaitReport", "done", "failed"}
    \/ /\ ~mounted
       /\ \A i \in Ids : \A r \in 1..Len(reactions[i]) : reactions[i][r].k # "dispose"

ClipsTracked ==
    /\ \A k \in 1..Len(clips) : ~clips[k].ended => k \in audioSourcesRef
    /\ TeardownCompleted => \A k \in audioSourcesRef : clips[k].stopped

NoLateClip == TeardownCompleted => Len(clips') = Len(clips)

C28_ClipsStoppedByTeardown == []ClipsTracked /\ [][NoLateClip]_vars

\* C29: errors surface as the status: a step in which a device, connection
\* or exchange error is handled leaves an error message as the status, and
\* while the status is an error message only a click replaces it with
\* something else.
ErrorMessages ==
    {"Failed to access microphone. Please check permissions and refresh.",
     "Connection error. Please refresh and try again.",
     "Session error.", "Mic error. Check permissions.",
     "An error occurred with the AI.", "Error initializing AI. Please refresh.",
     "Error generating report. Please try again."}

ErrorHandled ==
    \/ VoiceMicDenied \/ VoiceConnectFailed \/ VoiceOnError
    \/ \E i \in Ids : PttMicDenied(i) \/ PttConnectFailed(i) \/ PttOnError(i)
    \/ \E j \in Ids : PttReplyFailed(j)
    \/ PttStartStreamFailed

ErrorStatusKept ==
    /\ ErrorHandled /\ mounted => status' \in ErrorMessages
    /\ status \in ErrorMessages /\ ~Click => status' \in ErrorMessages

C29_ErrorStatusKept == [][ErrorStatusKept]_vars

\* C30: the float-to-PCM16 conversion does not wrap around: for every sample
\* x of the buffer, from -1 to 1 inclusive, the 16-bit value in the blob sent
\* lies in -32768..32767 and is zero or has the sign of x.
SentPcm == Int16Array(decode(encoded))

C30_PcmNoWrapAround ==
    utilPc = "encoded" =>
        /\ Len(SentPcm) = Len(data)
        /\ \A k \in 1..Len(data) :
             /\ SentPcm[k] \in -32768..32767
             /\ data[k].num > 0 => SentPcm[k] >= 0
             /\ data[k].num < 0 => SentPcm[k] <= 0

\* C31: push-to-talk stop: when handleStopRecording resumes after the cleanup
\* and the accumulated transcription trims to nothing, the last transcript
\* element becomes the USER message "(No speech detected)", nothing is
\* appended, no exchange is started and the status is the ready message;
\* otherwise the USER message gets the trimmed text, one empty AI message is
\* appended after it and exactly that one exchange is started.
StopResumed(j) == hpPc[j] = "cleanup" /\ hpPc'[j] # "cleanup"

StopOutcome(j) ==
    LET text == Trim(liveTranscriptionRef)
        n == Len(transcript)
    IN  IF text = <<>>
        THEN /\ Len(transcript') = n
             /\ transcript'[n] = Msg("USER", NoSpeech)
             /\ hpPc'[j] = "idle"
             /\ InFlight' = InFlight
             /\ status' = "Ready for your answer."
        ELSE /\ Len(transcript') = n + 1
             /\ transcript'[n] = Msg("USER", text)
             /\ transcript'[n + 1] = Msg("AI", <<>>)
             /\ InFlight' = InFlight \cup {j}
             /\ j \notin InFlight

StopFinalizes == \A j \in Ids : StopResumed(j) => StopOutcome(j)

C31_StopFinalizes == [][StopFinalizes]_vars

\* C32: on the voice screen every fragment is finalized at most once: right
\* after a turn-complete is processed both accumulators are empty and the
\* transcript before it is kept as a prefix; when both accumulations are
\* non-empty, exactly two messages are appended, USER before AI.
TurnProcessed == mounted /\ events' = events + 1 /\ turnLog'.done

AccumulatorsCleared ==
    /\ currentInputTranscriptionRef' = <<>>
    /\ currentOutputTranscriptionRef' = <<>>
    /\ Len(transcript') >= Len(transcript)
    /\ SubSeq(transcript', 1, Len(transcript)) = transcript

TwoAppended ==
    LET inp == Flatten(turnLog'.USER)
        out == Flatten(turnLog'.AI)
    IN  transcript' = transcript \o <<Msg("USER", Trim(inp)), Msg("AI", Trim(out))>>

\* As stated: whenever both accumulations are non-empty.
TurnFinalizedOnceAsStated ==
    TurnProcessed =>
        /\ AccumulatorsCleared
        /\ (Flatten(turnLog'.USER) # <<>> /\ Flatten(turnLog'.AI) # <<>>) => TwoAppended

C32_FinalizedOnceAsStated == [][TurnFinalizedOnceAsStated]_vars

\* Amended: whenever both accumulations are non-empty after trimming; an
\* accumulation of whitespace only appends no message.
TurnFinalizedOnce ==
    TurnProcessed =>
        /\ AccumulatorsCleared
        /\ (Trim(Flatten(turnLog'.USER)) # <<>> /\ Trim(Flatten(turnLog'.AI)) # <<>>)
              => TwoAppended

C32_FinalizedOnce == [][TurnFinalizedOnce]_vars

\* A second turn was finalized with both speakers' messages after an earlier
\* turn had been finalized.
C32_Witness ==
    /\ turnLog.done /\ turnLog.before # <<>>
    /\ Len(transcript) = Len(turnLog.before) + 2
    /\ transcript[Len(transcript) - 1].speaker = "USER"
    /\ transcript[Len(transcript)].speaker = "AI"
    /\ currentInputTranscriptionRef = <<>> /\ currentOutputTranscriptionRef = <<>>

\* C33: disposal during start leaks nothing: once the screen is unmounted and
\* every suspended handler (start, cleanup, handshake) has run to its end, no
\* capture track is live, no audio context is running and no connection is
\* connecting or open.
StartSettled ==
    /\ NoMicrotask
    /\ ssPc # "awaitMic"
    /\ \A i \in Ids : /\ hsPc[i] \notin {"awaitMic", "connecting"}
                      /\ conn[i] \notin {"connecting", "onopen"}
    /\ \A c \in Callers : clPc[c] \in {"idle", "done"}

NothingLeft ==
    \A i \in Ids :
        /\ tracks[i] # "live"
        /\ inCtx[i] # "running" /\ outCtx[i] # "running"
        /\ conn[i] \notin {"open", "errored"}

C33_DisposeDuringStart == (~mounted /\ StartSettled) => NothingLeft

\* C34: a failed start leaves the transcript as it was before the attempt: in
\* the step in which handleStartRecording catches the failure (microphone
\* denied, or the connection promise rejected), the transcript it leaves holds
\* no USER placeholder "...".
StartFailed(i) ==
    \/ hsPc[i] = "awaitMic" /\ hsPc'[i] = "done"
    \/ hsPc[i] = "connecting" /\ hsPc'[i] = "done" /\ promise[i] = "rejected"

NoPlaceholderLeft ==
    (\E i \in Ids : StartFailed(i)) =>
        \A k \in 1..Len(transcript') : transcript'[k] # Msg("USER", <<"...">>)

C34_FailedStartKeepsTranscript == [][NoPlaceholderLeft]_vars

\* C35: no captured text is lost at endInterview on the voice screen: when the
\* report generator is called after an End click that found a session, the
\* transcript passed holds every finalized message, and no text received since
\* the last turn-complete is left out of it in the accumulators.
EndedWithSession ==
    /\ variant = "voice" /\ eiPc = "awaitReport"
    /\ endedAt \notin {"never", "no stream"}

C35_NoTextLostAtEnd ==
    EndedWithSession =>
        /\ Len(transcript) <= Len(eiTranscript)
        /\ SubSeq(eiTranscript, 1, Len(transcript)) = transcript
        /\ ~turnLog.done => /\ Trim(Flatten(turnLog.USER)) = <<>>
                            /\ Trim(Flatten(turnLog.AI)) = <<>>

\* C36: no audio frame is forwarded after teardown: no sendRealtimeInput call
\* is made on a connection that endInterview, handleStopRecording's cleanup or
\* the unmount cleanup has closed, including the sends queued on the
\* connection promise before the close.
C36_NoFrameAfterClose ==
    \A k \in 1..Len(sent) : sent[k].conn # "closed"
====
